---------------------------- MODULE Spec2Model ----------------------------
(***************************************************************************)
(* A model of the MCP LaTeX server (src/latex_server.py): the six tools    *)
(* create_latex_file, edit_latex_file, read_latex_file, list_latex_files,  *)
(* validate_latex and get_latex_structure, the dispatcher call_tool, the   *)
(* path check _get_file_path and the template builder.                     *)
(*                                                                         *)
(* Text is a sequence of one-character strings, so that str.replace,       *)
(* str.splitlines, str.count, the regular expressions and the text-mode    *)
(* file I/O are computed character by character as Python computes them.   *)
(* A path is the sequence of its components below the root "/".  The       *)
(* filesystem holds no symbolic links: Path.resolve() then only removes    *)
(* the ".." components.                                                    *)
(***************************************************************************)
EXTENDS Integers, Sequences, FiniteSets, TLC

VARIABLES
    base_path,  \* self.base_path, fixed by __init__
    linesep,    \* os.linesep of the host: what text-mode writes turn "\n" into
    fs,         \* the filesystem: absolute path -> directory or file data
    before,     \* the filesystem as it was when the last call was dispatched
                \* (in SpecRace: when the two requests arrived)
    call,       \* the last tool call dispatched: its name and arguments
    result,     \* the TextContent that call returned
    io,         \* the filesystem operations that call performed, in order
    tasks,      \* the invocations the event loop holds: where each handler stands
    external    \* the writes other processes made to the file, in order

vars == <<base_path, linesep, fs, before, call, result, io, tasks, external>>

(***************************************************************************)
(* Text primitives                                                         *)
(***************************************************************************)

\* s[i..] starts with pat (the comparison str.replace, str.count, the "in"
\* operator and the regular expressions make at each position).
MatchAt(s, pat, i) ==
    /\ i >= 1
    /\ i + Len(pat) - 1 <= Len(s)
    /\ \A k \in 1..Len(pat) : s[i + k - 1] = pat[k]

\* text.startswith(prefix)
StartsWith(s, prefix) == MatchAt(s, prefix, 1)

\* sub in s
Contains(s, sub) == \E i \in 1..(Len(s) + 1) : MatchAt(s, sub, i)

\* The indices from a to b, in order.
Indices(a, b) == [k \in 1..(b - a + 1) |-> a + k - 1]

\* The first index >= i at which pat occurs in s, 0 when there is none
\* (str.find(pat, i - 1) + 1).
FindFrom(s, pat, i) ==
    LET hits == SelectSeq(Indices(i, Len(s) - Len(pat) + 1),
                          LAMBDA p : MatchAt(s, pat, p))
    IN  IF hits = <<>> THEN 0 ELSE hits[1]

\* s.count(pat): the occurrences found scanning left to right, each scan
\* resuming after the end of the previous occurrence (non-overlapping).
RECURSIVE CountFrom(_, _, _)
CountFrom(s, pat, i) ==
    LET p == FindFrom(s, pat, i)
    IN  IF p = 0 THEN 0
        ELSE 1 + CountFrom(s, pat, p + (IF Len(pat) = 0 THEN 1 ELSE Len(pat)))

Count(s, pat) == CountFrom(s, pat, 1)

\* s.replace(old, new) from index i on: every occurrence found by the same
\* left-to-right non-overlapping scan is replaced.  With old empty, new is
\* put before every character and at the end.
RECURSIVE ReplaceFrom(_, _, _, _)
ReplaceFrom(s, old, new, i) ==
    LET p == FindFrom(s, old, i)
    IN  IF Len(old) = 0
        THEN (IF i > Len(s) THEN new
              ELSE new \o <<s[i]>> \o ReplaceFrom(s, old, new, i + 1))
        ELSE IF p = 0 THEN SubSeq(s, i, Len(s))
        ELSE SubSeq(s, i, p - 1) \o new \o ReplaceFrom(s, old, new, p + Len(old))

Replace(s, old, new) == ReplaceFrom(s, old, new, 1)

\* The line boundaries of str.splitlines that the model's alphabet holds.
LineBreaks == {"\n", "\r", "\f"}

\* s.splitlines() from index i on: the lines without their terminators;
\* "\r\n" is one terminator; a terminator at the very end opens no further
\* line.
RECURSIVE SplitLinesFrom(_, _)
SplitLinesFrom(s, i) ==
    LET breaks == SelectSeq(Indices(i, Len(s)), LAMBDA p : s[p] \in LineBreaks)
        b      == breaks[1]
        next   == IF s[b] = "\r" /\ b < Len(s) /\ s[b + 1] = "\n" THEN b + 2 ELSE b + 1
    IN  IF i > Len(s) THEN <<>>
        ELSE IF breaks = <<>> THEN <<SubSeq(s, i, Len(s))>>
        ELSE <<SubSeq(s, i, b - 1)>> \o SplitLinesFrom(s, next)

SplitLines(s) == SplitLinesFrom(s, 1)

\* sep.join(parts)
RECURSIVE Join(_, _)
Join(parts, sep) ==
    IF parts = <<>> THEN <<>>
    ELSE IF Len(parts) = 1 THEN parts[1]
    ELSE parts[1] \o sep \o Join(Tail(parts), sep)

\* list.insert(index, x) for index >= 0: an index beyond the end appends.
ListInsert(list, index, x) ==
    IF index >= Len(list) THEN Append(list, x)
    ELSE SubSeq(list, 1, index) \o <<x>> \o SubSeq(list, index + 1, Len(list))

\* Text-mode reading with newline=None (universal newlines): "\r\n" and a
\* lone "\r" both arrive as "\n".  The "\n" of a "\r\n" is dropped and every
\* "\r" becomes "\n".
Decode(data) ==
    LET kept == SelectSeq(Indices(1, Len(data)),
                          LAMBDA i : ~(data[i] = "\n" /\ i > 1 /\ data[i - 1] = "\r"))
    IN  [j \in 1..Len(kept) |-> IF data[kept[j]] = "\r" THEN "\n" ELSE data[kept[j]]]

\* Text-mode writing with newline=None: every "\n" leaves as os.linesep,
\* every other character as itself.  Each character has Len(sep) slots, of
\* which a "\n" fills all and any other character the first.
Encode(text, sep) ==
    LET width == Len(sep)
        char(k) == ((k - 1) \div width) + 1
        slot(k) == ((k - 1) % width) + 1
        used == SelectSeq(Indices(1, Len(text) * width),
                          LAMBDA k : slot(k) = 1 \/ text[char(k)] = "\n")
    IN  [j \in 1..Len(used) |->
            IF text[char(used[j])] = "\n" THEN sep[slot(used[j])] ELSE text[char(used[j])]]

(***************************************************************************)
(* Paths and the filesystem                                                *)
(***************************************************************************)

\* A path argument as the caller writes it: absolute or not, and its
\* components.
Rel(parts) == [abs |-> FALSE, parts |-> parts]
Abs(parts) == [abs |-> TRUE, parts |-> parts]

\* Path(file_path) drops "." components.
PathOf(file_path) ==
    [abs |-> file_path.abs,
     parts |-> SelectSeq(file_path.parts, LAMBDA c : c # ".")]

\* Path.resolve() on an absolute path: ".." removes the component before it
\* and is dropped at the root.
RECURSIVE ResolveFrom(_, _, _)
ResolveFrom(parts, i, acc) ==
    IF i > Len(parts) THEN acc
    ELSE IF parts[i] = ".."
         THEN ResolveFrom(parts, i + 1,
                          IF acc = <<>> THEN acc ELSE SubSeq(acc, 1, Len(acc) - 1))
    ELSE ResolveFrom(parts, i + 1, Append(acc, parts[i]))

Resolve(parts) == ResolveFrom(parts, 1, <<>>)

\* PurePath.relative_to(other) succeeds exactly when other's components are
\* a prefix of the path's own, compared as written (no resolution).
IsRelativeTo(parts, other) ==
    /\ Len(other) <= Len(parts)
    /\ SubSeq(parts, 1, Len(other)) = other

\* path.relative_to(other), for a path that IsRelativeTo(other)
RelativeTo(parts, other) == SubSeq(parts, Len(other) + 1, Len(parts))

\* Path.parent: the path without its last component; the root is its own.
Parent(parts) == IF parts = <<>> THEN parts ELSE SubSeq(parts, 1, Len(parts) - 1)

\* A check that compares the path as written, without resolving it.
GetFilePathUnresolved(base, file_path) ==
    LET p    == PathOf(file_path)
        path == IF p.abs THEN p.parts ELSE base \o p.parts
    IN  [ok |-> IsRelativeTo(path, Resolve(Parent(base))), path |-> path]

\* _get_file_path: the path joined to the base directory when relative; ok
\* is FALSE where the code raises ValueError, the resolved path lying
\* outside the parent of the base directory.  The path returned is the
\* joined one, not the resolved one.
get_file_path(base, file_path) ==
    LET p            == PathOf(file_path)
        path         == IF p.abs THEN p.parts ELSE base \o p.parts
        allowed_base == Resolve(Parent(base))
    IN  [ok |-> IsRelativeTo(Resolve(path), allowed_base), path |-> path]

\* Filesystem entries
Dir == [kind |-> "dir"]
File(data) == [kind |-> "file", data |-> data]

\* The entry a path names: the operating system follows the ".." components.
Exists(f, path) == Resolve(path) \in DOMAIN f
IsDir(f, path) == Exists(f, path) /\ f[Resolve(path)].kind = "dir"
IsFile(f, path) == Exists(f, path) /\ f[Resolve(path)].kind = "file"

\* The proper ancestors of an absolute resolved path, and the path itself.
Ancestors(p) == {SubSeq(p, 1, n) : n \in 0..Len(p)}

\* Path.mkdir(parents=True, exist_ok=True): fails when the directory or one
\* of its ancestors is an existing file, and then creates nothing;
\* otherwise every missing directory of the chain is created.
MkdirFails(f, path) ==
    \E a \in Ancestors(Resolve(path)) : a \in DOMAIN f /\ f[a].kind = "file"

Mkdir(f, path) ==
    [a \in DOMAIN f \cup Ancestors(Resolve(path)) |->
        IF a \in DOMAIN f THEN f[a] ELSE Dir]

\* Path.write_text fails on a directory (IsADirectoryError) and where the
\* parent is no directory.
WriteFails(f, path) ==
    \/ IsDir(f, path)
    \/ ~IsDir(f, Parent(Resolve(path)))

\* Path.write_text(text, encoding="utf-8"): the file is created or
\* truncated and holds the encoded text.
WriteFile(f, path, text, sep) ==
    [a \in DOMAIN f \cup {Resolve(path)} |->
        IF a = Resolve(path) THEN File(Encode(text, sep)) ELSE f[a]]

\* Path.read_text(encoding="utf-8") fails on a directory.
ReadFails(f, path) == ~IsFile(f, path)

ReadFile(f, path) == Decode(f[Resolve(path)].data)

\* The component names the model uses, in the order Python sorts strings,
\* and those among them that match "*.tex".
NameOrder ==
    <<"..", "a.tex", "c.tex", "etc", "home", "m.tex", "n.tex", "new", "proj", "sib",
      "x.tex">>

NameRank == [n \in {NameOrder[i] : i \in 1..Len(NameOrder)} |->
                CHOOSE i \in 1..Len(NameOrder) : NameOrder[i] = n]

TexNames == {"a.tex", "c.tex", "m.tex", "n.tex", "x.tex"}

\* Path.glob("*.tex") / Path.glob("**/*.tex"): the entries below the
\* directory (directly below it when not recursive) whose name ends in
\* ".tex", each as the directory's path as written plus the relative part.
IsTexName(name) == name \in TexNames

Glob(f, dir_path, recursive) ==
    LET root == Resolve(dir_path)
    IN  {dir_path \o RelativeTo(a, root) :
            a \in {b \in DOMAIN f :
                     /\ Len(b) > Len(root)
                     /\ IsRelativeTo(b, root)
                     /\ (recursive \/ Len(b) = Len(root) + 1)
                     /\ IsTexName(b[Len(b)])}}

\* One filesystem operation in the log of a call.
Op(kind, path) == [op |-> kind, path |-> Resolve(path)]

(***************************************************************************)
(* The texts of the program                                                *)
(***************************************************************************)

\* The prefix that marks a failure for the calling agent.
ErrorPrefix == <<"E", "r", "r", "o", "r">>

\* The heads of the result texts: each f-string up to its first field.
MsgUnknownTool == <<"U", "n", "k", "n", "o", "w", "n", " ", "t", "o", "o", "l", ":",
    " ">>
MsgError == <<"E", "r", "r", "o", "r", ":", " ">>
MsgCreated == <<"S", "u", "c", "c", "e", "s", "s", "f", "u", "l", "l", "y", " ", "c",
    "r", "e", "a", "t", "e", "d", " ", "L", "a", "T", "e", "X", " ", "f", "i", "l",
    "e", ":", " ">>
MsgErrorCreating == <<"E", "r", "r", "o", "r", " ", "c", "r", "e", "a", "t", "i", "n",
    "g", " ", "L", "a", "T", "e", "X", " ", "f", "i", "l", "e", ":", " ">>
MsgFileNotFound == <<"F", "i", "l", "e", " ", "n", "o", "t", " ", "f", "o", "u", "n",
    "d", ":", " ">>
MsgSearchRequired == <<"s", "e", "a", "r", "c", "h", "_", "t", "e", "x", "t", " ", "i",
    "s", " ", "r", "e", "q", "u", "i", "r", "e", "d", " ", "f", "o", "r", " ", "r",
    "e", "p", "l", "a", "c", "e", " ", "o", "p", "e", "r", "a", "t", "i", "o", "n">>
MsgSearchOrLine == <<"s", "e", "a", "r", "c", "h", "_", "t", "e", "x", "t", " ", "o",
    "r", " ", "v", "a", "l", "i", "d", " ", "l", "i", "n", "e", "_", "n", "u", "m",
    "b", "e", "r", " ", "i", "s", " ", "r", "e", "q", "u", "i", "r", "e", "d">>
MsgUnknownOperation == <<"U", "n", "k", "n", "o", "w", "n", " ", "o", "p", "e", "r",
    "a", "t", "i", "o", "n", ":", " ">>
MsgEdited == <<"S", "u", "c", "c", "e", "s", "s", "f", "u", "l", "l", "y", " ", "e",
    "d", "i", "t", "e", "d", " ", "L", "a", "T", "e", "X", " ", "f", "i", "l", "e",
    ":", " ">>
MsgErrorEditing == <<"E", "r", "r", "o", "r", " ", "e", "d", "i", "t", "i", "n", "g",
    " ", "L", "a", "T", "e", "X", " ", "f", "i", "l", "e", ":", " ">>
MsgContentsOf == <<"C", "o", "n", "t", "e", "n", "t", "s", " ", "o", "f", " ">>
MsgErrorReading == <<"E", "r", "r", "o", "r", " ", "r", "e", "a", "d", "i", "n", "g",
    " ", "L", "a", "T", "e", "X", " ", "f", "i", "l", "e", ":", " ">>
MsgDirNotFound == <<"D", "i", "r", "e", "c", "t", "o", "r", "y", " ", "n", "o", "t",
    " ", "f", "o", "u", "n", "d", ":", " ">>
MsgNoFiles == <<"N", "o", " ", "L", "a", "T", "e", "X", " ", "f", "i", "l", "e", "s",
    " ", "f", "o", "u", "n", "d", " ", "i", "n", " ">>
MsgFilesIn == <<"L", "a", "T", "e", "X", " ", "f", "i", "l", "e", "s", " ", "i", "n",
    " ">>
MsgErrorListing == <<"E", "r", "r", "o", "r", " ", "l", "i", "s", "t", "i", "n", "g",
    " ", "L", "a", "T", "e", "X", " ", "f", "i", "l", "e", "s", ":", " ">>
MsgIssuesFound == <<"L", "a", "T", "e", "X", " ", "v", "a", "l", "i", "d", "a", "t",
    "i", "o", "n", " ", "i", "s", "s", "u", "e", "s", " ", "f", "o", "u", "n", "d",
    " ", "i", "n", " ">>
MsgValid == <<"L", "a", "T", "e", "X", " ", "f", "i", "l", "e", " ">>
MsgErrorValidating == <<"E", "r", "r", "o", "r", " ", "v", "a", "l", "i", "d", "a",
    "t", "i", "n", "g", " ", "L", "a", "T", "e", "X", " ", "f", "i", "l", "e", ":",
    " ">>
MsgStructureOf == <<"S", "t", "r", "u", "c", "t", "u", "r", "e", " ", "o", "f", " ">>
MsgErrorAnalyzing == <<"E", "r", "r", "o", "r", " ", "a", "n", "a", "l", "y", "z", "i",
    "n", "g", " ", "L", "a", "T", "e", "X", " ", "s", "t", "r", "u", "c", "t", "u",
    "r", "e", ":", " ">>

\* The LaTeX texts the template builder emits and the scans look for.
TexDocumentclass == <<"\\", "d", "o", "c", "u", "m", "e", "n", "t", "c", "l", "a", "s",
    "s">>
TexBeginDocument == <<"\\", "b", "e", "g", "i", "n", "{", "d", "o", "c", "u", "m", "e",
    "n", "t", "}">>
TexEndDocument == <<"\\", "e", "n", "d", "{", "d", "o", "c", "u", "m", "e", "n", "t",
    "}">>
TexMaketitle == <<"\\", "m", "a", "k", "e", "t", "i", "t", "l", "e">>
TexPlaceholder == <<"%", " ", "Y", "o", "u", "r", " ", "c", "o", "n", "t", "e", "n",
    "t", " ", "h", "e", "r", "e">>
TexUsepackage == <<"\\", "u", "s", "e", "p", "a", "c", "k", "a", "g", "e">>
TexInputenc == <<"\\", "u", "s", "e", "p", "a", "c", "k", "a", "g", "e", "[", "u", "t",
    "f", "8", "]", "{", "i", "n", "p", "u", "t", "e", "n", "c", "}">>
TexFontenc == <<"\\", "u", "s", "e", "p", "a", "c", "k", "a", "g", "e", "[", "T", "1",
    "]", "{", "f", "o", "n", "t", "e", "n", "c", "}">>
TexBabel == <<"\\", "u", "s", "e", "p", "a", "c", "k", "a", "g", "e", "[", "e", "n",
    "g", "l", "i", "s", "h", "]", "{", "b", "a", "b", "e", "l", "}">>
TexTitle == <<"\\", "t", "i", "t", "l", "e">>
TexAuthor == <<"\\", "a", "u", "t", "h", "o", "r">>
TexDate == <<"\\", "d", "a", "t", "e">>
TexBegin == <<"\\", "b", "e", "g", "i", "n">>
TexEnd == <<"\\", "e", "n", "d">>
TexRef == <<"\\", "r", "e", "f">>
TexLabel == <<"\\", "l", "a", "b", "e", "l">>
TexPart == <<"\\", "p", "a", "r", "t">>
TexChapter == <<"\\", "c", "h", "a", "p", "t", "e", "r">>
TexSection == <<"\\", "s", "e", "c", "t", "i", "o", "n">>
TexSubsection == <<"\\", "s", "u", "b", "s", "e", "c", "t", "i", "o", "n">>
TexSubsubsection == <<"\\", "s", "u", "b", "s", "u", "b", "s", "e", "c", "t", "i", "o",
    "n">>
TexParagraph == <<"\\", "p", "a", "r", "a", "g", "r", "a", "p", "h">>
TexSubparagraph == <<"\\", "s", "u", "b", "p", "a", "r", "a", "g", "r", "a", "p", "h">>
TexToday == <<"\\", "t", "o", "d", "a", "y">>

\* The issue texts of validate_latex.
IssueNoDocumentclass == <<"M", "i", "s", "s", "i", "n", "g", " ", "\\", "d", "o", "c",
    "u", "m", "e", "n", "t", "c", "l", "a", "s", "s", " ", "d", "e", "c", "l", "a",
    "r", "a", "t", "i", "o", "n">>
IssueNoBegin == <<"M", "i", "s", "s", "i", "n", "g", " ", "\\", "b", "e", "g", "i",
    "n", "{", "d", "o", "c", "u", "m", "e", "n", "t", "}">>
IssueNoEnd == <<"M", "i", "s", "s", "i", "n", "g", " ", "\\", "e", "n", "d", "{", "d",
    "o", "c", "u", "m", "e", "n", "t", "}">>
IssueUnbalanced == <<"U", "n", "b", "a", "l", "a", "n", "c", "e", "d", " ", "b", "r",
    "a", "c", "e", "s", ":", " ">>
IssueUnmatched == <<"U", "n", "m", "a", "t", "c", "h", "e", "d", " ", "e", "n", "v",
    "i", "r", "o", "n", "m", "e", "n", "t", ":", " ">>
IssueUndefined == <<"U", "n", "d", "e", "f", "i", "n", "e", "d", " ", "r", "e", "f",
    "e", "r", "e", "n", "c", "e", "s", ":", " ">>

NameArticle == <<"a", "r", "t", "i", "c", "l", "e">>
NameInputenc == <<"i", "n", "p", "u", "t", "e", "n", "c">>
NameFontenc == <<"f", "o", "n", "t", "e", "n", "c">>
NameBabel == <<"b", "a", "b", "e", "l">>
NameGeometry == <<"g", "e", "o", "m", "e", "t", "r", "y">>

(***************************************************************************)
(* The template builder                                                    *)
(***************************************************************************)

\* f"\\cmd{{{arg}}}"
Braced(cmd, arg) == cmd \o <<"{">> \o arg \o <<"}">>

\* The \usepackage line of one package: the canonical invocation for the
\* three default names, the bare one otherwise.
PackageLine(package) ==
    IF package = NameInputenc THEN TexInputenc
    ELSE IF package = NameFontenc THEN TexFontenc
    ELSE IF package = NameBabel THEN TexBabel
    ELSE Braced(TexUsepackage, package)

\* The lines of the packages, in the order of the list.
RECURSIVE PackageLines(_)
PackageLines(packages) ==
    IF packages = <<>> THEN <<>>
    ELSE <<PackageLine(packages[1])>> \o PackageLines(Tail(packages))

\* A builder that emits \maketitle whether or not there is a title.
TemplatePartsAlwaysMaketitle(document_type, title, author, date, content, packages, geometry) ==
    <<Braced(TexDocumentclass, document_type)>>
    \o (IF geometry # <<>>
        THEN <<TexUsepackage \o <<"[">> \o geometry \o <<"]">> \o <<"{">> \o NameGeometry \o <<"}">>>>
        ELSE <<>>)
    \o PackageLines(<<NameInputenc, NameFontenc, NameBabel>> \o packages)
    \o (IF title # <<>> THEN <<Braced(TexTitle, title)>> ELSE <<>>)
    \o (IF author # <<>> THEN <<Braced(TexAuthor, author)>> ELSE <<>>)
    \o (IF date # <<>> THEN <<Braced(TexDate, date)>> ELSE <<>>)
    \o <<TexBeginDocument>>
    \o <<TexMaketitle>>
    \o <<IF content # <<>> THEN content ELSE TexPlaceholder>>
    \o <<TexEndDocument>>

\* A builder that emits the caller's packages before the default ones and
\* the geometry package after them.
TemplatePartsPackagesFirst(document_type, title, author, date, content, packages, geometry) ==
    <<Braced(TexDocumentclass, document_type)>>
    \o PackageLines(packages \o <<NameInputenc, NameFontenc, NameBabel>>)
    \o (IF geometry # <<>>
        THEN <<TexUsepackage \o <<"[">> \o geometry \o <<"]">> \o <<"{">> \o NameGeometry \o <<"}">>>>
        ELSE <<>>)
    \o (IF title # <<>> THEN <<Braced(TexTitle, title)>> ELSE <<>>)
    \o (IF author # <<>> THEN <<Braced(TexAuthor, author)>> ELSE <<>>)
    \o (IF date # <<>> THEN <<Braced(TexDate, date)>> ELSE <<>>)
    \o <<TexBeginDocument>>
    \o (IF title # <<>> THEN <<TexMaketitle>> ELSE <<>>)
    \o <<IF content # <<>> THEN content ELSE TexPlaceholder>>
    \o <<TexEndDocument>>

\* template_parts of _create_latex_template, in the order of its appends.
TemplateParts(document_type, title, author, date, content, packages, geometry) ==
    <<Braced(TexDocumentclass, document_type)>>
    \o (IF geometry # <<>>
        THEN <<TexUsepackage \o <<"[">> \o geometry \o <<"]">> \o <<"{">> \o NameGeometry \o <<"}">>>>
        ELSE <<>>)
    \o PackageLines(<<NameInputenc, NameFontenc, NameBabel>> \o packages)
    \o (IF title # <<>> THEN <<Braced(TexTitle, title)>> ELSE <<>>)
    \o (IF author # <<>> THEN <<Braced(TexAuthor, author)>> ELSE <<>>)
    \o (IF date # <<>> THEN <<Braced(TexDate, date)>> ELSE <<>>)
    \o <<TexBeginDocument>>
    \o (IF title # <<>> THEN <<TexMaketitle>> ELSE <<>>)
    \o <<IF content # <<>> THEN content ELSE TexPlaceholder>>
    \o <<TexEndDocument>>

\* _create_latex_template: the parts joined by a blank line.
create_latex_template(document_type, title, author, date, content, packages, geometry) ==
    Join(TemplateParts(document_type, title, author, date, content, packages, geometry),
         <<"\n", "\n">>)

(***************************************************************************)
(* The regular expressions                                                 *)
(***************************************************************************)

\* One attempt of  cmd(?:\[[^\]]*\])?\{([^}]+)\}  (with options) or of
\* cmd\{([^}]+)\}  (without) at index i: whether it matches, the text
\* captured and the index of the closing brace.  [^\]]* runs to the first
\* "]" and [^}]+ to the first "}", which must leave it at least one
\* character; either may run over line ends.
MatchBracedAt(s, cmd, options, i) ==
    LET Group(open, end) ==
            IF MatchAt(s, cmd, i) /\ end > open + 1
            THEN [ok |-> TRUE, group |-> SubSeq(s, open + 1, end - 1), end |-> end]
            ELSE [ok |-> FALSE, group |-> <<>>, end |-> 0]
        Braces(open) ==
            Group(open, IF open <= Len(s) /\ s[open] = "{"
                        THEN FindFrom(s, <<"}">>, open + 1) ELSE 0)
        Options(k, close) == Braces(IF close # 0 THEN close + 1 ELSE k)
        Command(k) ==
            Options(k, IF options /\ k <= Len(s) /\ s[k] = "["
                       THEN FindFrom(s, <<"]">>, k + 1) ELSE 0)
    IN  Command(i + Len(cmd))

\* pattern.findall(s) / re.finditer(pattern, s) from index i on: the
\* captures of the matches found left to right, each search resuming after
\* the last match.  Only an index where cmd occurs can start a match.
RECURSIVE FindAllFrom(_, _, _, _)
FindAllFrom(s, cmd, options, i) ==
    LET Rest(p, m) ==
            IF p = 0 THEN <<>>
            ELSE IF m.ok THEN <<m.group>> \o FindAllFrom(s, cmd, options, m.end + 1)
            ELSE FindAllFrom(s, cmd, options, p + 1)
        Attempt(p) == Rest(p, MatchBracedAt(s, cmd, options, p))
    IN  Attempt(FindFrom(s, cmd, i))

FindAll(s, cmd, options) == FindAllFrom(s, cmd, options, 1)

\* list.count(x)
ListCount(list, x) == Cardinality({i \in 1..Len(list) : list[i] = x})

\* set(list)
ListSet(list) == {list[i] : i \in 1..Len(list)}

(***************************************************************************)
(* Arguments                                                               *)
(***************************************************************************)

\* handler(**arguments) raises TypeError when a parameter without default
\* is missing or a key names no parameter.
BindFails(arguments, required, allowed) ==
    ~(required \subseteq DOMAIN arguments /\ DOMAIN arguments \subseteq allowed)

\* The value of a parameter: the argument given, or the default.
Arg(arguments, key, default) ==
    IF key \in DOMAIN arguments THEN arguments[key] ELSE default

\* "if search_text": the argument is given and is not the empty string
\* (absent, it is None).
HasText(arguments, key) == key \in DOMAIN arguments /\ arguments[key] # <<>>

\* A line check that forgets the upper end of the range.
ValidLineNoUpper(arguments, lines) ==
    /\ "line_number" \in DOMAIN arguments
    /\ 1 <= arguments.line_number

\* "line_number is not None and 1 <= line_number <= len(lines)"
ValidLine(arguments, lines) ==
    /\ "line_number" \in DOMAIN arguments
    /\ 1 <= arguments.line_number
    /\ arguments.line_number <= Len(lines)

\* What a handler hands back: the filesystem it leaves, the text it
\* returns (outcome names the return statement taken; head is the text up
\* to its first field, body the fields) and the operations it performed.
Return(f, outcome, head, body, ops) ==
    [fs |-> f, result |-> [outcome |-> outcome, head |-> head, body |-> body], io |-> ops]

(***************************************************************************)
(* edit_latex_file                                                         *)
(***************************************************************************)

\* An insert_after that puts the text before the line instead of after it.
InsertAfterLineOffByOne(lines, line_number, new_text) ==
    Join(ListInsert(lines, line_number - 1, new_text), <<"\n">>)

\* lines.insert(line_number - 1, new_text); "\n".join(lines)
InsertBeforeLine(lines, line_number, new_text) ==
    Join(ListInsert(lines, line_number - 1, new_text), <<"\n">>)

\* lines.insert(line_number, new_text); "\n".join(lines)
InsertAfterLine(lines, line_number, new_text) ==
    Join(ListInsert(lines, line_number, new_text), <<"\n">>)

\* An insert that prefers the line number to the search text.
InsertBeforeLineFirst(content, arguments) ==
    LET lines == SplitLines(content)
    IN  IF ValidLine(arguments, lines)
        THEN [ok |-> TRUE,
              content |-> InsertBeforeLine(lines, arguments.line_number, arguments.new_text)]
        ELSE IF HasText(arguments, "search_text")
        THEN [ok |-> TRUE,
              content |-> Replace(content, arguments.search_text,
                                  arguments.new_text \o <<"\n">> \o arguments.search_text)]
        ELSE [ok |-> FALSE, content |-> content]

\* The insert_before branch: by search text when there is one, else by a
\* valid line number, else the failure.
InsertBefore(content, arguments) ==
    LET lines == SplitLines(content)
    IN  IF HasText(arguments, "search_text")
        THEN [ok |-> TRUE,
              content |-> Replace(content, arguments.search_text,
                                  arguments.new_text \o <<"\n">> \o arguments.search_text)]
        ELSE IF ValidLine(arguments, lines)
        THEN [ok |-> TRUE,
              content |-> InsertBeforeLine(lines, arguments.line_number, arguments.new_text)]
        ELSE [ok |-> FALSE, content |-> content]

\* The insert_after branch.
InsertAfter(content, arguments) ==
    LET lines == SplitLines(content)
    IN  IF HasText(arguments, "search_text")
        THEN [ok |-> TRUE,
              content |-> Replace(content, arguments.search_text,
                                  arguments.search_text \o <<"\n">> \o arguments.new_text)]
        ELSE IF ValidLine(arguments, lines)
        THEN [ok |-> TRUE,
              content |-> InsertAfterLine(lines, arguments.line_number, arguments.new_text)]
        ELSE [ok |-> FALSE, content |-> content]

\* A prepend that puts the text at the end.
PrependAtEnd(content, new_text) == content \o <<"\n">> \o new_text

\* content + "\n" + new_text
AppendText(content, new_text) == content \o <<"\n">> \o new_text

\* new_text + "\n" + content
PrependText(content, new_text) == new_text \o <<"\n">> \o content

\* The operation branches of _edit_latex_file on the content read: ok is
\* FALSE where the code returns before the write, with the outcome and
\* the text of that return; otherwise content is the text to write.
EditApply(content, arguments) ==
    LET operation == arguments.operation
        new_text  == arguments.new_text
        done(c)   == [ok |-> TRUE, outcome |-> "ok", head |-> MsgEdited, content |-> c]
        fail(o, h) == [ok |-> FALSE, outcome |-> o, head |-> h, content |-> content]
        inserted(r) == IF r.ok THEN done(r.content)
                       ELSE fail("missing_field", MsgSearchOrLine)
    IN  CASE operation = "replace" ->
               IF ~HasText(arguments, "search_text")
               THEN fail("missing_field", MsgSearchRequired)
               ELSE done(Replace(content, arguments.search_text, new_text))
          [] operation = "insert_before" -> inserted(InsertBefore(content, arguments))
          [] operation = "insert_after" -> inserted(InsertAfter(content, arguments))
          [] operation = "append" -> done(AppendText(content, new_text))
          [] operation = "prepend" -> done(PrependText(content, new_text))
          [] OTHER -> fail("unknown_operation", MsgUnknownOperation)

\* _edit_latex_file: the path check, the existence test, the read, the
\* operation on the content read and, when it succeeds, the write.
edit_latex_file(f, base, sep, arguments) ==
    LET Written(path, e) ==
            IF ~e.ok
            THEN Return(f, e.outcome, e.head,
                        [path |-> path, operation |-> arguments.operation],
                        {Op("exists", path), Op("read", path)})
            ELSE Return(WriteFile(f, path, e.content, sep), "ok", MsgEdited,
                        [path |-> path, operation |-> arguments.operation],
                        {Op("exists", path), Op("read", path), Op("write", path)})
        Checked(gp) ==
            IF ~gp.ok
            THEN Return(f, "path_escape", MsgErrorEditing, [path |-> gp.path], {})
            ELSE IF ~Exists(f, gp.path)
            THEN Return(f, "not_found", MsgFileNotFound, [path |-> gp.path],
                        {Op("exists", gp.path)})
            ELSE IF ReadFails(f, gp.path)
            THEN Return(f, "io_error", MsgErrorEditing, [path |-> gp.path],
                        {Op("exists", gp.path), Op("read", gp.path)})
            ELSE Written(gp.path, EditApply(ReadFile(f, gp.path), arguments))
    IN  Checked(get_file_path(base, arguments.file_path))
(***************************************************************************)
(* create_latex_file                                                       *)
(***************************************************************************)

\* _create_latex_file
create_latex_file(f, base, sep, arguments) ==
    LET Written(path, made, latex_content) ==
            IF WriteFails(made, path)
            THEN Return(made, "io_error", MsgErrorCreating, [path |-> path],
                        {Op("mkdir", Parent(path)), Op("write", path)})
            ELSE Return(WriteFile(made, path, latex_content, sep),
                        "ok", MsgCreated, [path |-> path, content |-> latex_content],
                        {Op("mkdir", Parent(path)), Op("write", path)})
        Checked(gp) ==
            IF ~gp.ok
            THEN Return(f, "path_escape", MsgErrorCreating, [path |-> gp.path], {})
            ELSE IF MkdirFails(f, Parent(gp.path))
            THEN Return(f, "io_error", MsgErrorCreating, [path |-> gp.path],
                        {Op("mkdir", Parent(gp.path))})
            ELSE Written(gp.path, Mkdir(f, Parent(gp.path)),
                         create_latex_template(
                             Arg(arguments, "document_type", NameArticle),
                             Arg(arguments, "title", <<>>),
                             Arg(arguments, "author", <<>>),
                             Arg(arguments, "date", TexToday),
                             Arg(arguments, "content", <<>>),
                             Arg(arguments, "packages", <<>>),
                             Arg(arguments, "geometry", <<>>)))
    IN  Checked(get_file_path(base, arguments.file_path))

(***************************************************************************)
(* read_latex_file                                                         *)
(***************************************************************************)

\* A read that opens the file for update: a file that is missing is
\* created empty and read.
ReadCreatingMissing(f, base, sep, arguments) ==
    LET Checked(gp) ==
            IF ~gp.ok
            THEN Return(f, "path_escape", MsgErrorReading, [path |-> gp.path], {})
            ELSE IF ~Exists(f, gp.path) /\ ~WriteFails(f, gp.path)
            THEN Return(WriteFile(f, gp.path, <<>>, sep), "ok", MsgContentsOf,
                        [path |-> gp.path, content |-> <<>>],
                        {Op("exists", gp.path), Op("write", gp.path)})
            ELSE IF ReadFails(f, gp.path)
            THEN Return(f, "io_error", MsgErrorReading, [path |-> gp.path],
                        {Op("exists", gp.path), Op("read", gp.path)})
            ELSE Return(f, "ok", MsgContentsOf,
                        [path |-> gp.path, content |-> ReadFile(f, gp.path)],
                        {Op("exists", gp.path), Op("read", gp.path)})
    IN  Checked(get_file_path(base, arguments.file_path))

\* _read_latex_file
read_latex_file(f, base, sep, arguments) ==
    LET Checked(gp) ==
            IF ~gp.ok
            THEN Return(f, "path_escape", MsgErrorReading, [path |-> gp.path], {})
            ELSE IF ~Exists(f, gp.path)
            THEN Return(f, "not_found", MsgFileNotFound, [path |-> gp.path],
                        {Op("exists", gp.path)})
            ELSE IF ReadFails(f, gp.path)
            THEN Return(f, "io_error", MsgErrorReading, [path |-> gp.path],
                        {Op("exists", gp.path), Op("read", gp.path)})
            ELSE Return(f, "ok", MsgContentsOf,
                        [path |-> gp.path, content |-> ReadFile(f, gp.path)],
                        {Op("exists", gp.path), Op("read", gp.path)})
    IN  Checked(get_file_path(base, arguments.file_path))

(***************************************************************************)
(* list_latex_files                                                        *)
(***************************************************************************)

\* The order of two component names as Python compares strings.
NameLess(a, b) == NameRank[a] < NameRank[b]

\* The order of two paths: component by component, a prefix first.
RECURSIVE PathLess(_, _)
PathLess(p, q) ==
    IF p = <<>> THEN q # <<>>
    ELSE IF q = <<>> THEN FALSE
    ELSE IF p[1] = q[1] THEN PathLess(Tail(p), Tail(q))
    ELSE NameLess(p[1], q[1])

\* sorted(paths)
RECURSIVE Sorted(_)
Sorted(paths) ==
    IF paths = {} THEN <<>>
    ELSE LET least == CHOOSE p \in paths : \A q \in paths \ {p} : PathLess(p, q)
         IN  <<least>> \o Sorted(paths \ {least})

\* tex_file.stat().st_size: the bytes the file holds (a directory's size is
\* the host's own business; the model gives 0).
FileSize(f, path) ==
    IF IsFile(f, path) THEN Len(f[Resolve(path)].data) ELSE 0

\* The loop over the sorted files: each is made relative to base_path and
\* then stat'ed; relative_to raises ValueError at the first file whose
\* path as written does not start with base_path.
RECURSIVE ListLoop(_, _, _, _, _)
ListLoop(f, base, files, i, acc) ==
    IF i > Len(files) THEN [ok |-> TRUE, file_list |-> acc.file_list, io |-> acc.io]
    ELSE IF ~IsRelativeTo(files[i], base)
    THEN [ok |-> FALSE, file_list |-> acc.file_list, io |-> acc.io]
    ELSE ListLoop(f, base, files, i + 1,
                  [file_list |-> Append(acc.file_list,
                                        [relative_path |-> RelativeTo(files[i], base),
                                         size |-> FileSize(f, files[i])]),
                   io |-> acc.io \cup {Op("stat", files[i])}])

\* _list_latex_files
list_latex_files(f, base, sep, arguments) ==
    LET Listed(dir_path, seen, loop) ==
            IF ~loop.ok
            THEN Return(f, "exception", MsgErrorListing, [path |-> dir_path],
                        seen \cup loop.io)
            ELSE Return(f, "ok", MsgFilesIn,
                        [path |-> dir_path, file_list |-> loop.file_list],
                        seen \cup loop.io)
        Globbed(dir_path, seen, tex_files) ==
            IF tex_files = {}
            THEN Return(f, "ok", MsgNoFiles, [path |-> dir_path], seen)
            ELSE Listed(dir_path, seen,
                        ListLoop(f, base, Sorted(tex_files), 1,
                                 [file_list |-> <<>>, io |-> {}]))
        Checked(gp) ==
            IF ~gp.ok
            THEN Return(f, "path_escape", MsgErrorListing, [path |-> gp.path], {})
            ELSE IF ~Exists(f, gp.path)
            THEN Return(f, "not_found", MsgDirNotFound, [path |-> gp.path],
                        {Op("exists", gp.path)})
            ELSE IF ~IsDir(f, gp.path)
            THEN Return(f, "not_found", MsgDirNotFound, [path |-> gp.path],
                        {Op("exists", gp.path), Op("is_dir", gp.path)})
            ELSE Globbed(gp.path,
                         {Op("exists", gp.path), Op("is_dir", gp.path),
                          Op("glob", gp.path)},
                         Glob(f, gp.path, Arg(arguments, "recursive", FALSE)))
    IN  Checked(get_file_path(base, Arg(arguments, "directory_path", Rel(<<".">>))))
(***************************************************************************)
(* validate_latex                                                          *)
(***************************************************************************)

\* "for env in begins": one issue for every element of begins, repeated
\* ones included, whose count in begins differs from its count in ends.
RECURSIVE UnmatchedLoop(_, _, _)
UnmatchedLoop(begins, ends, i) ==
    IF i > Len(begins) THEN <<>>
    ELSE (IF ListCount(begins, begins[i]) # ListCount(ends, begins[i])
          THEN <<[head |-> IssueUnmatched, env |-> begins[i]]>>
          ELSE <<>>)
         \o UnmatchedLoop(begins, ends, i + 1)

\* The three checks as one chain that stops at the first marker missing.
ScaffoldIssuesFirstOnly(content) ==
    IF ~Contains(content, TexDocumentclass) THEN <<[head |-> IssueNoDocumentclass]>>
    ELSE IF ~Contains(content, TexBeginDocument) THEN <<[head |-> IssueNoBegin]>>
    ELSE IF ~Contains(content, TexEndDocument) THEN <<[head |-> IssueNoEnd]>>
    ELSE <<>>

\* The three checks of the basic structure, each on its own "if": a check
\* runs whatever the checks before it found.
ScaffoldIssues(content) ==
    (IF ~Contains(content, TexDocumentclass)
     THEN <<[head |-> IssueNoDocumentclass]>> ELSE <<>>)
    \o (IF ~Contains(content, TexBeginDocument)
        THEN <<[head |-> IssueNoBegin]>> ELSE <<>>)
    \o (IF ~Contains(content, TexEndDocument)
        THEN <<[head |-> IssueNoEnd]>> ELSE <<>>)

\* A check of the braces that follows their positions: a "}" with no "{"
\* open before it is unbalanced too.
BraceIssuesByPosition(content) ==
    LET Opened(k) == Cardinality({i \in 1..k : content[i] = "{"})
        Closed(k) == Cardinality({i \in 1..k : content[i] = "}"})
    IN  IF \/ Opened(Len(content)) # Closed(Len(content))
           \/ \E k \in 1..Len(content) : Closed(k) > Opened(k)
        THEN <<[head |-> IssueUnbalanced, open |-> Opened(Len(content)),
                close |-> Closed(Len(content))]>>
        ELSE <<>>

\* content.count("{") against content.count("}").
BraceIssues(content) ==
    LET Braces(open_braces, close_braces) ==
            IF open_braces # close_braces
            THEN <<[head |-> IssueUnbalanced, open |-> open_braces,
                    close |-> close_braces]>>
            ELSE <<>>
    IN  Braces(Count(content, <<"{">>), Count(content, <<"}">>))

\* refs - labels, the sets of what the two patterns capture.
ReferenceIssues(content) ==
    LET References(undefined_refs) ==
            IF undefined_refs # {}
            THEN <<[head |-> IssueUndefined, names |-> undefined_refs]>> ELSE <<>>
    IN  References(ListSet(FindAll(content, TexRef, FALSE))
                   \ ListSet(FindAll(content, TexLabel, FALSE)))

\* The issues list of _validate_latex for the content read, in the order
\* of its appends.  An issue is the head of its text and its fields.
ValidateIssues(content) ==
    ScaffoldIssues(content)
    \o BraceIssues(content)
    \o UnmatchedLoop(FindAll(content, TexBegin, FALSE),
                     FindAll(content, TexEnd, FALSE), 1)
    \o ReferenceIssues(content)

\* _validate_latex
validate_latex(f, base, sep, arguments) ==
    LET Validated(path, seen, issues) ==
            IF issues # <<>>
            THEN Return(f, "ok", MsgIssuesFound, [path |-> path, issues |-> issues], seen)
            ELSE Return(f, "ok", MsgValid, [path |-> path, issues |-> issues], seen)
        Checked(gp) ==
            IF ~gp.ok
            THEN Return(f, "path_escape", MsgErrorValidating, [path |-> gp.path], {})
            ELSE IF ~Exists(f, gp.path)
            THEN Return(f, "not_found", MsgFileNotFound, [path |-> gp.path],
                        {Op("exists", gp.path)})
            ELSE IF ReadFails(f, gp.path)
            THEN Return(f, "io_error", MsgErrorValidating, [path |-> gp.path],
                        {Op("exists", gp.path), Op("read", gp.path)})
            ELSE Validated(gp.path, {Op("exists", gp.path), Op("read", gp.path)},
                           ValidateIssues(ReadFile(f, gp.path)))
    IN  Checked(get_file_path(base, arguments.file_path))

(***************************************************************************)
(* get_latex_structure                                                     *)
(***************************************************************************)

\* The patterns with the sections tried before the chapters.
SectionPatternsSectionFirst ==
    << <<TexPart, "Part">>, <<TexSection, "Section">>, <<TexChapter, "Chapter">>,
       <<TexSubsection, "Subsection">>, <<TexSubsubsection, "Subsubsection">>,
       <<TexParagraph, "Paragraph">>, <<TexSubparagraph, "Subparagraph">> >>

\* section_patterns: the command of each pattern and its level, in order.
SectionPatterns ==
    << <<TexPart, "Part">>, <<TexChapter, "Chapter">>, <<TexSection, "Section">>,
       <<TexSubsection, "Subsection">>, <<TexSubsubsection, "Subsubsection">>,
       <<TexParagraph, "Paragraph">>, <<TexSubparagraph, "Subparagraph">> >>

\* The entries of one level: every match of its pattern, in document order.
LevelEntries(content, pattern) ==
    LET Entries(found) ==
            [i \in 1..Len(found) |-> [level |-> pattern[2], heading |-> found[i]]]
    IN  Entries(FindAll(content, pattern[1], FALSE))

\* "for pattern, level in section_patterns": the entries level by level.
RECURSIVE Outline(_, _)
Outline(content, i) ==
    IF i > Len(SectionPatterns) THEN <<>>
    ELSE LevelEntries(content, SectionPatterns[i]) \o Outline(content, i + 1)

\* re.search(pattern, content): the first match, if any.
SearchFirst(content, cmd, options) ==
    LET First(found) == IF found = <<>> THEN <<>> ELSE <<found[1]>>
    IN  First(FindAll(content, cmd, options))

\* The structure list of _get_latex_structure: the document class, title
\* and author found (each a list of at most one), the outline and the set
\* of packages.
Structure(content) ==
    [doc_class |-> SearchFirst(content, TexDocumentclass, TRUE),
     title     |-> SearchFirst(content, TexTitle, FALSE),
     author    |-> SearchFirst(content, TexAuthor, FALSE),
     outline   |-> Outline(content, 1),
     packages  |-> ListSet(FindAll(content, TexUsepackage, TRUE))]

\* _get_latex_structure
get_latex_structure(f, base, sep, arguments) ==
    LET Checked(gp) ==
            IF ~gp.ok
            THEN Return(f, "path_escape", MsgErrorAnalyzing, [path |-> gp.path], {})
            ELSE IF ~Exists(f, gp.path)
            THEN Return(f, "not_found", MsgFileNotFound, [path |-> gp.path],
                        {Op("exists", gp.path)})
            ELSE IF ReadFails(f, gp.path)
            THEN Return(f, "io_error", MsgErrorAnalyzing, [path |-> gp.path],
                        {Op("exists", gp.path), Op("read", gp.path)})
            ELSE Return(f, "ok", MsgStructureOf,
                        [path |-> gp.path, structure |-> Structure(ReadFile(f, gp.path))],
                        {Op("exists", gp.path), Op("read", gp.path)})
    IN  Checked(get_file_path(base, arguments.file_path))

(***************************************************************************)
(* call_tool                                                               *)
(***************************************************************************)

\* The parameters of each handler: those without a default, and all.
Required(name) ==
    CASE name = "create_latex_file" -> {"file_path"}
      [] name = "edit_latex_file" -> {"file_path", "operation", "new_text"}
      [] name = "list_latex_files" -> {}
      [] OTHER -> {"file_path"}

Allowed(name) ==
    CASE name = "create_latex_file" ->
             {"file_path", "document_type", "title", "author", "date", "content",
              "packages", "geometry"}
      [] name = "edit_latex_file" ->
             {"file_path", "operation", "new_text", "search_text", "line_number"}
      [] name = "list_latex_files" -> {"directory_path", "recursive"}
      [] OTHER -> {"file_path"}

ToolNames ==
    {"create_latex_file", "edit_latex_file", "read_latex_file", "list_latex_files",
     "validate_latex", "get_latex_structure"}

\* call_tool: the handler of the tool named, the "Unknown tool" text for
\* any other name, and the "Error: " text for an exception that leaves the
\* handler (the TypeError of arguments that do not fit its parameters).
call_tool(f, base, sep, name, arguments) ==
    IF name \notin ToolNames
    THEN Return(f, "unknown_tool", MsgUnknownTool, [name |-> name], {})
    ELSE IF BindFails(arguments, Required(name), Allowed(name))
    THEN Return(f, "exception", MsgError, [name |-> name], {})
    ELSE CASE name = "create_latex_file" -> create_latex_file(f, base, sep, arguments)
           [] name = "edit_latex_file" -> edit_latex_file(f, base, sep, arguments)
           [] name = "read_latex_file" -> read_latex_file(f, base, sep, arguments)
           [] name = "list_latex_files" -> list_latex_files(f, base, sep, arguments)
           [] name = "validate_latex" -> validate_latex(f, base, sep, arguments)
           [] name = "get_latex_structure" -> get_latex_structure(f, base, sep, arguments)

(***************************************************************************)
(* The server as a state machine                                           *)
(***************************************************************************)

\* The longest file (in bytes) the model calls edit_latex_file on, and the
\* longest file the edit specification starts from.
MaxLen == 3

\* The largest line_number the edit specification passes.
MaxLine == 2

\* The most pieces the validated content is made of.
MaxPieces == 3

\* All texts over an alphabet, up to a length.
RECURSIVE TextsUpTo(_, _)
TextsUpTo(alphabet, n) ==
    IF n = 0 THEN {<<>>}
    ELSE LET shorter == TextsUpTo(alphabet, n - 1)
         IN  shorter \cup {Append(t, c) : t \in shorter, c \in alphabet}

\* All concatenations of at most n pieces.
RECURSIVE Concatenations(_, _)
Concatenations(pieces, n) ==
    IF n = 0 THEN {<<>>}
    ELSE LET shorter == Concatenations(pieces, n - 1)
         IN  shorter \cup {t \o p : t \in shorter, p \in pieces}

BasePath == <<"home", "proj">>

\* The directories every run starts with, and a filesystem made of them
\* and of the files given (path -> bytes).
BaseDirs == {<<>>, <<"home">>, <<"home", "proj">>, <<"home", "sib">>, <<"etc">>}

MakeFs(files) ==
    [p \in BaseDirs \cup DOMAIN files |-> IF p \in DOMAIN files THEN File(files[p]) ELSE Dir]

\* The arguments of a call: the required ones and any choice of the others.
Opt(key, values) == {<<>>} \cup {key :> v : v \in values}

NoCall == [name |-> "", arguments |-> <<>>]
NoResult == [outcome |-> "none", head |-> <<>>, body |-> <<>>]

\* A tool call from the transport to its return: call_tool awaits nothing,
\* so the whole handler is one step.
CallTool(name, arguments) ==
    \E r \in {call_tool(fs, base_path, linesep, name, arguments)} :
        /\ before' = fs
        /\ fs' = r.fs
        /\ result' = r.result
        /\ io' = r.io
        /\ call' = [name |-> name, arguments |-> arguments]
        /\ UNCHANGED <<base_path, linesep, tasks, external>>

\* The server takes one request at a time: the next call starts once the
\* result of the last has been sent.
Idle == call = NoCall

\* The result goes back to the client and the server waits for the next
\* request; the files stay as the call left them.
Respond ==
    /\ call # NoCall
    /\ call' = NoCall
    /\ result' = NoResult
    /\ io' = {}
    /\ before' = fs
    /\ UNCHANGED <<base_path, linesep, fs, tasks, external>>

\* The file an edit call names is at most MaxLen bytes long.
SmallTarget(arguments) ==
    LET gp == get_file_path(base_path, arguments.file_path)
    IN  ("file_path" \in DOMAIN arguments /\ IsFile(fs, gp.path))
            => Len(fs[Resolve(gp.path)].data) <= MaxLen

(***************************************************************************)
(* Spec: all six tools and the dispatcher over a small directory tree      *)
(***************************************************************************)

FilePaths ==
    {Rel(<<"a.tex">>), Rel(<<"m.tex">>), Rel(<<"..", "sib", "c.tex">>),
     Rel(<<"..", "sib">>), Rel(<<"..", "..", "etc", "x.tex">>), Abs(<<"etc", "x.tex">>)}

DirPaths ==
    {Rel(<<".">>), Rel(<<"..">>), Rel(<<"new">>), Rel(<<"a.tex">>),
     Rel(<<"..", "sib">>), Abs(<<"home", "sib">>),
     Rel(<<"..", "..", "etc">>), Abs(<<"etc">>)}

CreateArgs ==
    {[file_path |-> p] :
        p \in {Rel(<<"n.tex">>), Rel(<<"new", "n.tex">>), Rel(<<"a.tex", "n.tex">>),
               Rel(<<"..", "sib">>), Rel(<<"..", "..", "etc", "x.tex">>),
               Abs(<<"etc", "x.tex">>), Abs(<<"etc", "new", "n.tex">>)}}

EditArgs ==
    {[file_path |-> p, operation |-> op, new_text |-> <<"b">>] @@ s :
        p \in FilePaths \ {Rel(<<"..", "sib", "c.tex">>)},
        op \in {"replace", "append", "rename"},
        s \in Opt("search_text", {<<"a">>})}

FileArgs == {[file_path |-> p] : p \in FilePaths}

ListArgs ==
    {d @@ r : d \in Opt("directory_path", DirPaths), r \in Opt("recursive", {TRUE})}

\* Calls whose arguments do not fit the handler's parameters.
BadCalls ==
    {[name |-> "edit_latex_file", arguments |-> [file_path |-> Rel(<<"a.tex">>)]],
     [name |-> "read_latex_file", arguments |-> <<>>],
     [name |-> "list_latex_files", arguments |-> [file_path |-> Rel(<<"a.tex">>)]]}

Init ==
    /\ base_path = BasePath
    /\ linesep \in {<<"\n">>, <<"\r", "\n">>}
    /\ \E a \in {<<"a">>} :
          fs = MakeFs(<<"home", "proj", "a.tex">> :> a
                      @@ <<"home", "sib", "c.tex">> :> <<"c">>
                      @@ <<"etc", "x.tex">> :> <<"x">>)
    /\ before = fs
    /\ call = NoCall
    /\ result = NoResult
    /\ io = {}
    /\ tasks = <<>>
    /\ external = <<>>

Create == Idle /\ \E a \in CreateArgs : CallTool("create_latex_file", a)

Edit == Idle /\ \E a \in EditArgs : SmallTarget(a) /\ CallTool("edit_latex_file", a)

Read == Idle /\ \E a \in FileArgs : CallTool("read_latex_file", a)

List == Idle /\ \E a \in ListArgs : CallTool("list_latex_files", a)

Validate == Idle /\ \E a \in FileArgs : CallTool("validate_latex", a)

GetStructure == Idle /\ \E a \in FileArgs : CallTool("get_latex_structure", a)

UnknownTool == Idle /\ CallTool("compile_latex", [file_path |-> Rel(<<"a.tex">>)])

BadArguments == Idle /\ \E c \in BadCalls : CallTool(c.name, c.arguments)

Next ==
    \/ Create
    \/ Edit
    \/ Read
    \/ List
    \/ Validate
    \/ GetStructure
    \/ UnknownTool
    \/ BadArguments
    \/ Respond

Spec == Init /\ [][Next]_vars


(***************************************************************************)
(* SpecEdit: edit_latex_file on one file, from every short content        *)
(***************************************************************************)

EditFiles == {Rel(<<"a.tex">>), Rel(<<"m.tex">>)}
NewTexts == {<<>>, <<"a">>, <<"b">>}
SearchTexts == {<<>>, <<"a">>, <<"a", "a">>}

\* The edit calls of one operation, with any of the optional arguments
\* given.
EditCalls(operation, optional) ==
    {[file_path |-> p, operation |-> operation, new_text |-> t] @@ o :
        p \in EditFiles, t \in NewTexts, o \in optional}

\* The file every call of this specification names or misses, and the
\* bound on what is edited further: it holds at most MaxLen bytes.
EditTarget == <<"home", "proj", "a.tex">>

SmallFile == Len(fs[EditTarget].data) <= MaxLen

SearchOptions == Opt("search_text", SearchTexts)

InsertOptions == {s @@ l : s \in SearchOptions, l \in Opt("line_number", 0..MaxLine)}

InitEdit ==
    /\ base_path = BasePath
    /\ linesep \in {<<"\n">>, <<"\r", "\n">>}
    /\ \E data \in TextsUpTo({"a", "\n", "\r"}, MaxLen) :
          fs = MakeFs(<<"home", "proj", "a.tex">> :> data)
    /\ before = fs
    /\ call = NoCall
    /\ result = NoResult
    /\ io = {}
    /\ tasks = <<>>
    /\ external = <<>>

EditReplace ==
    /\ Idle /\ SmallFile
    /\ \E a \in EditCalls("replace", SearchOptions) : CallTool("edit_latex_file", a)

EditInsertBefore ==
    /\ Idle /\ SmallFile
    /\ \E a \in EditCalls("insert_before", InsertOptions) : CallTool("edit_latex_file", a)

EditInsertAfter ==
    /\ Idle /\ SmallFile
    /\ \E a \in EditCalls("insert_after", InsertOptions) : CallTool("edit_latex_file", a)

EditAppend ==
    /\ Idle /\ SmallFile
    /\ \E a \in EditCalls("append", {<<>>}) : CallTool("edit_latex_file", a)

EditPrepend ==
    /\ Idle /\ SmallFile
    /\ \E a \in EditCalls("prepend", {<<>>}) : CallTool("edit_latex_file", a)

EditUnknownOperation ==
    /\ Idle /\ SmallFile
    /\ \E a \in EditCalls("rename", SearchOptions) : CallTool("edit_latex_file", a)

NextEdit ==
    \/ EditReplace
    \/ EditInsertBefore
    \/ EditInsertAfter
    \/ EditAppend
    \/ EditPrepend
    \/ EditUnknownOperation
    \/ Respond

SpecEdit == InitEdit /\ [][NextEdit]_vars

(***************************************************************************)
(* Properties of edit_latex_file (checked under SpecEdit)                  *)
(***************************************************************************)

\* The last call was edit_latex_file on the file of this specification,
\* with the operation given; its arguments; the text of the file as a
\* reader gets it before and after the call.
Edited(operation) ==
    /\ call.name = "edit_latex_file"
    /\ call.arguments.file_path = Rel(<<"a.tex">>)
    /\ call.arguments.operation = operation

TextBefore == Decode(before[EditTarget].data)
TextAfter == Decode(fs[EditTarget].data)

SearchGiven ==
    "search_text" \in DOMAIN call.arguments /\ call.arguments.search_text # <<>>

\* The lines of a text whose only line end is "\n": what lies between the
\* line ends, and the same without the empty line after a final line end.
LinesBetween(t) ==
    LET nl == SelectSeq(Indices(1, Len(t)), LAMBDA p : t[p] = "\n")
    IN  [i \in 1..(Len(nl) + 1) |->
            SubSeq(t, IF i = 1 THEN 1 ELSE nl[i - 1] + 1,
                      IF i > Len(nl) THEN Len(t) ELSE nl[i] - 1)]

FileLines(t) ==
    LET l == LinesBetween(t)
    IN  IF l[Len(l)] = <<>> THEN SubSeq(l, 1, Len(l) - 1) ELSE l

LineCount == Len(FileLines(TextBefore))

LineGiven ==
    /\ "line_number" \in DOMAIN call.arguments
    /\ call.arguments.line_number \in 1..LineCount

\* The places where a left-to-right scan finds pat in s without overlap: a
\* match counts unless an earlier counted match covers its start.
Occurrences(s, pat) ==
    LET matches == {p \in 1..Len(s) : MatchAt(s, pat, p)}
    IN  CHOOSE S \in SUBSET matches :
            \A p \in matches :
                p \in S <=> \A q \in S : ~(q < p /\ p < q + Len(pat))

\* y is x with each of those occurrences of pat replaced by new and every
\* other character kept in place.
IsReplaceAll(x, pat, new, y) ==
    LET S == Occurrences(x, pat)
        grow == Len(new) - Len(pat)
        shift(i) == Cardinality({q \in S : q < i}) * grow
    IN  /\ Len(y) = Len(x) + Cardinality(S) * grow
        /\ \A p \in S : SubSeq(y, p + shift(p), p + shift(p) + Len(new) - 1) = new
        /\ \A i \in 1..Len(x) :
              (\A q \in S : ~(q <= i /\ i < q + Len(pat))) => y[i + shift(i)] = x[i]

\* r is l with x put in as element number pos and nothing else changed.
IsInsertion(l, pos, x, r) ==
    /\ Len(r) = Len(l) + 1
    /\ r[pos] = x
    /\ \A i \in 1..Len(l) : r[IF i < pos THEN i ELSE i + 1] = l[i]

\* The conditions under which C3 says the call fails.
C3_MustFail ==
    /\ call.name = "edit_latex_file"
    /\ \/ base_path \o call.arguments.file_path.parts \notin DOMAIN before
       \/ call.arguments.operation = "replace" /\ ~SearchGiven
       \/ /\ call.arguments.operation \in {"insert_before", "insert_after"}
          /\ ~SearchGiven
          /\ ~LineGiven
       \/ call.arguments.operation
             \notin {"replace", "insert_before", "insert_after", "append", "prepend"}

\* C3: an edit_latex_file call that must fail (the file is missing; replace
\* without a non-empty search_text; insert_before or insert_after without a
\* non-empty search_text and without a line_number in 1..line_count; an
\* unknown operation) returns a failure and leaves the filesystem as it
\* was: the file's content is the same and no file is created.
C3_FailedEditChangesNothing ==
    C3_MustFail => (fs = before /\ result.outcome # "ok")

C3_Witness ==
    /\ Edited("insert_after")
    /\ ~SearchGiven
    /\ "line_number" \in DOMAIN call.arguments
    /\ call.arguments.line_number > LineCount
    /\ LineCount >= 1
    /\ result.outcome = "missing_field"
    /\ fs = before

\* C4: replace with a non-empty search_text that occurs k times (counted
\* without overlap) in the file's content puts new_text in the place of
\* each of the k occurrences and keeps every other character; with k = 0
\* the content of the file after the call is its content before it.
C4_ReplaceReplacesAll ==
    (Edited("replace") /\ SearchGiven) =>
        /\ result.outcome = "ok"
        /\ IsReplaceAll(before[EditTarget].data, call.arguments.search_text,
                        call.arguments.new_text, fs[EditTarget].data)
        /\ Occurrences(before[EditTarget].data, call.arguments.search_text) = {}
              => fs[EditTarget].data = before[EditTarget].data

\* What does hold of replace: the same of the text a reader gets from the
\* file, in which every line end is "\n".
ReplaceReplacesAllInText ==
    (Edited("replace") /\ SearchGiven) =>
        /\ result.outcome = "ok"
        /\ IsReplaceAll(TextBefore, call.arguments.search_text,
                        call.arguments.new_text, TextAfter)
        /\ Occurrences(TextBefore, call.arguments.search_text) = {}
              => TextAfter = TextBefore

\* A replace that found nothing and changed the file.
ReplaceRewritesLineEnds ==
    /\ Edited("replace")
    /\ SearchGiven
    /\ Occurrences(before[EditTarget].data, call.arguments.search_text) = {}
    /\ result.outcome = "ok"
    /\ fs[EditTarget].data # before[EditTarget].data

\* The text of the file after two edit_latex_file calls in a row, both on
\* the file of this specification: an append of a and a prepend of b, in
\* either order.
EditArguments(operation, new_text) ==
    [file_path |-> Rel(<<"a.tex">>), operation |-> operation, new_text |-> new_text]

EditTwice(f, first, second) ==
    Decode(edit_latex_file(edit_latex_file(f, base_path, linesep, first).fs,
                           base_path, linesep, second).fs[EditTarget].data)

AppendThenPrepend(f, a, b) ==
    EditTwice(f, EditArguments("append", a), EditArguments("prepend", b))

PrependThenAppend(f, a, b) ==
    EditTwice(f, EditArguments("prepend", b), EditArguments("append", a))

Newlines(t) == Cardinality({i \in 1..Len(t) : t[i] = "\n"})

\* C6: insert_before / insert_after with a non-empty search_text puts
\* new_text + newline + search_text / search_text + newline + new_text in
\* the place of every occurrence of search_text (counted without overlap)
\* and keeps every other character: N occurrences give N insertions, each
\* adding one newline, whether or not a line_number is given too.
C6_InsertBySearchText ==
    /\ (Edited("insert_before") /\ SearchGiven) =>
          /\ result.outcome = "ok"
          /\ IsReplaceAll(TextBefore, call.arguments.search_text,
                          call.arguments.new_text \o <<"\n">> \o call.arguments.search_text,
                          TextAfter)
    /\ (Edited("insert_after") /\ SearchGiven) =>
          /\ result.outcome = "ok"
          /\ IsReplaceAll(TextBefore, call.arguments.search_text,
                          call.arguments.search_text \o <<"\n">> \o call.arguments.new_text,
                          TextAfter)
    /\ ((Edited("insert_before") \/ Edited("insert_after")) /\ SearchGiven) =>
          Newlines(TextAfter)
              = Newlines(TextBefore)
                + Cardinality(Occurrences(TextBefore, call.arguments.search_text))
                  * (1 + Newlines(call.arguments.new_text))

\* An insert_before by search text with two occurrences and a line number
\* that is valid too.
C6_Witness ==
    /\ Edited("insert_before")
    /\ SearchGiven
    /\ LineGiven
    /\ Cardinality(Occurrences(TextBefore, call.arguments.search_text)) = 2
    /\ call.arguments.new_text = <<"b">>
    /\ result.outcome = "ok"

\* The text is one line: it holds no line end.
OneLine(t) == \A i \in 1..Len(t) : t[i] \notin LineBreaks

PathArgument ==
    IF call.name = "list_latex_files"
    THEN Arg(call.arguments, "directory_path", Rel(<<".">>))
    ELSE call.arguments.file_path

HasPathArgument ==
    /\ call.name \in ToolNames
    /\ ~BindFails(call.arguments, Required(call.name), Allowed(call.name))

\* The path, taken from the base directory when relative and with its ".."
\* followed, does not lie in the parent of the base directory.
Outside(p) ==
    ~IsRelativeTo(Resolve(SelectSeq(IF p.abs THEN p.parts ELSE base_path \o p.parts,
                                    LAMBDA c : c # ".")),
                  Parent(base_path))

\* C1: a call of any of the six tools whose path argument resolves to a
\* place outside the allowed root (the parent of the base directory)
\* returns the path-escape error of the tool and has no filesystem effect:
\* nothing is looked up, read, written or created, and the filesystem is
\* as it was.
C1_EscapingPathTouchesNothing ==
    (HasPathArgument /\ Outside(PathArgument)) =>
        /\ result.outcome = "path_escape"
        /\ StartsWith(result.head, ErrorPrefix)
        /\ io = {}
        /\ fs = before

\* An edit of a file that exists outside the allowed root, named by a
\* relative path that climbs out of it.
C1_Witness ==
    /\ call.name = "edit_latex_file"
    /\ call.arguments.file_path = Rel(<<"..", "..", "etc", "x.tex">>)
    /\ call.arguments.operation = "append"
    /\ Outside(PathArgument)
    /\ IsFile(before, <<"etc", "x.tex">>)
    /\ result.outcome = "path_escape"
    /\ io = {}
    /\ fs = before

\* C2: every call that fails (path escape, file or directory not found,
\* missing edit field, unknown edit operation, unknown tool, arguments
\* that do not fit, I/O failure) returns a text that starts with "Error",
\* and no call that succeeds does.
C2_ErrorPrefixMarksFailure ==
    call # NoCall =>
        (result.outcome # "ok" <=> StartsWith(result.head, ErrorPrefix))

\* A failing call whose text does not start with "Error".
FailureWithoutErrorPrefix ==
    /\ call.name = "read_latex_file"
    /\ call.arguments.file_path = Rel(<<"m.tex">>)
    /\ result.outcome = "not_found"
    /\ result.head = MsgFileNotFound
    /\ ~StartsWith(result.head, ErrorPrefix)

(***************************************************************************)
(* SpecTemplate: create_latex_file of a new file, from every template      *)
(***************************************************************************)

NameMinimal == <<"m", "i", "n", "i", "m", "a", "l">>
NameAmsmath == <<"a", "m", "s", "m", "a", "t", "h">>
NameTikz == <<"t", "i", "k", "z">>
TxtMargin == <<"m", "a", "r", "g", "i", "n", "=", "1", "i", "n">>

\* The file the calls of this specification create.
NewTarget == <<"home", "proj", "n.tex">>

\* The arguments of the template: each given or left to its default.
TemplateArgs ==
    {[file_path |-> Rel(<<"n.tex">>)] @@ t @@ ti @@ au @@ da @@ co @@ pa @@ ge :
        t \in Opt("document_type", {NameMinimal}),
        ti \in Opt("title", {<<>>, <<"T">>}),
        au \in Opt("author", {<<"A">>}),
        da \in Opt("date", {<<>>}),
        co \in Opt("content", {<<"x">>}),
        pa \in Opt("packages", {<<NameAmsmath>>, <<NameTikz, NameAmsmath>>, <<NameBabel>>}),
        ge \in Opt("geometry", {TxtMargin})}

InitTemplate ==
    /\ base_path = BasePath
    /\ linesep \in {<<"\n">>, <<"\r", "\n">>}
    /\ fs = MakeFs(<<>>)
    /\ before = fs
    /\ call = NoCall
    /\ result = NoResult
    /\ io = {}
    /\ tasks = <<>>
    /\ external = <<>>

\* The specification follows each file from its creation: a call creates a
\* file that is not there yet.
CreateNew ==
    /\ Idle /\ ~Exists(fs, NewTarget)
    /\ \E a \in TemplateArgs : CallTool("create_latex_file", a)

NextTemplate ==
    \/ CreateNew
    \/ Respond

SpecTemplate == InitTemplate /\ [][NextTemplate]_vars

(***************************************************************************)
(* Properties of the template (checked under SpecTemplate)                 *)
(***************************************************************************)

Created == call.name = "create_latex_file" /\ result.outcome = "ok"

\* The text a reader gets from the file created, and the arguments of the
\* template with their defaults.
TemplateText == Decode(fs[NewTarget].data)

Given(key, default) == Arg(call.arguments, key, default)

\* s ends with suffix.
EndsWith(s, suffix) == MatchAt(s, suffix, Len(s) - Len(suffix) + 1)

\* The markers occur in the text one after the other, in their order,
\* without overlap, from index i on.
RECURSIVE InOrderFrom(_, _, _, _)
InOrderFrom(text, markers, k, i) ==
    IF k > Len(markers) THEN TRUE
    ELSE /\ FindFrom(text, markers[k], i) # 0
         /\ InOrderFrom(text, markers, k + 1,
                        FindFrom(text, markers[k], i) + Len(markers[k]))

\* What C8 says the text holds, in the order it says: the declaration of
\* the class, the geometry package if any, the three implicit packages in
\* canonical form, the caller's packages by name, the title, author and
\* date commands, \begin{document}, \maketitle, the body or the
\* placeholder, \end{document}.
C8_Markers ==
    <<Braced(TexDocumentclass, Given("document_type", NameArticle))>>
    \o (IF Given("geometry", <<>>) # <<>>
        THEN <<<<"[">> \o Given("geometry", <<>>) \o <<"]", "{">> \o NameGeometry \o <<"}">>>>
        ELSE <<>>)
    \o <<TexInputenc, TexFontenc, TexBabel>>
    \o [i \in 1..Len(Given("packages", <<>>)) |->
            <<"{">> \o Given("packages", <<>>)[i] \o <<"}">>]
    \o (IF Given("title", <<>>) # <<>>
        THEN <<Braced(TexTitle, Given("title", <<>>))>> ELSE <<>>)
    \o (IF Given("author", <<>>) # <<>>
        THEN <<Braced(TexAuthor, Given("author", <<>>))>> ELSE <<>>)
    \o (IF Given("date", TexToday) # <<>>
        THEN <<Braced(TexDate, Given("date", TexToday))>> ELSE <<>>)
    \o <<TexBeginDocument>>
    \o (IF Given("title", <<>>) # <<>> THEN <<TexMaketitle>> ELSE <<>>)
    \o <<IF Given("content", <<>>) # <<>> THEN Given("content", <<>>) ELSE TexPlaceholder>>
    \o <<TexEndDocument>>

\* C8: the text create_latex_file builds holds its parts in this order:
\* class declaration, geometry package (only with a non-empty geometry),
\* the implicit packages inputenc, fontenc, babel in canonical form, the
\* caller's packages in the order given, the title, author and date
\* commands, \begin{document}, \maketitle, the body (or the placeholder
\* comment), \end{document}; the class declaration comes first and
\* \end{document} last, and there is one \usepackage for each package.
C8_PartsInOrder ==
    Created =>
        /\ InOrderFrom(TemplateText, C8_Markers, 1, 1)
        /\ StartsWith(TemplateText, C8_Markers[1])
        /\ EndsWith(TemplateText, TexEndDocument)
        /\ Count(TemplateText, TexUsepackage)
              = 3 + Len(Given("packages", <<>>))
                + (IF Given("geometry", <<>>) # <<>> THEN 1 ELSE 0)

\* A file created with a geometry, two packages of the caller, a title,
\* an author and a body.
C8_Witness ==
    /\ Created
    /\ Given("geometry", <<>>) = TxtMargin
    /\ Given("packages", <<>>) = <<NameTikz, NameAmsmath>>
    /\ Given("title", <<>>) = <<"T">>
    /\ Given("author", <<>>) = <<"A">>
    /\ Given("content", <<>>) = <<"x">>
    /\ InOrderFrom(TemplateText, C8_Markers, 1, 1)

\* C9: the text create_latex_file builds (from arguments that hold neither
\* command themselves) has both the \title command and \maketitle when the
\* title is non-empty and neither of them when the title is empty or not
\* given: never one without the other.
C9_TitleAndMaketitleTogether ==
    Created =>
        /\ Given("title", <<>>) # <<>> =>
              /\ Contains(TemplateText, Braced(TexTitle, Given("title", <<>>)))
              /\ Contains(TemplateText, TexMaketitle)
        /\ Given("title", <<>>) = <<>> =>
              /\ ~Contains(TemplateText, TexTitle)
              /\ ~Contains(TemplateText, TexMaketitle)

\* A file created with title "" and an author: neither command is there.
C9_Witness ==
    /\ Created
    /\ "title" \in DOMAIN call.arguments
    /\ call.arguments.title = <<>>
    /\ Given("author", <<>>) = <<"A">>
    /\ ~Contains(TemplateText, TexMaketitle)
    /\ Contains(TemplateText, TexBeginDocument)

(***************************************************************************)
(* SpecValidate: validate_latex on a file made of \begin and \end          *)
(***************************************************************************)

\* The environment names of the contents, and the pieces the contents are
\* made of: a \begin{name} and an \end{name} for each.
EnvNames == {<<"a">>, <<"b">>}

EnvPieces == {Braced(TexBegin, n) : n \in EnvNames} \cup {Braced(TexEnd, n) : n \in EnvNames}

InitValidate ==
    /\ base_path = BasePath
    /\ linesep \in {<<"\n">>, <<"\r", "\n">>}
    /\ \E content \in Concatenations(EnvPieces, MaxPieces) :
          fs = MakeFs(EditTarget :> content)
    /\ before = fs
    /\ call = NoCall
    /\ result = NoResult
    /\ io = {}
    /\ tasks = <<>>
    /\ external = <<>>

ValidateFile ==
    /\ Idle
    /\ \E p \in {Rel(<<"a.tex">>), Rel(<<"m.tex">>)} :
          CallTool("validate_latex", [file_path |-> p])

NextValidate ==
    \/ ValidateFile
    \/ Respond

SpecValidate == InitValidate /\ [][NextValidate]_vars

(***************************************************************************)
(* Properties of validate_latex (checked under SpecValidate)               *)
(***************************************************************************)

Validated ==
    /\ call.name = "validate_latex"
    /\ call.arguments.file_path = Rel(<<"a.tex">>)
    /\ result.outcome = "ok"

\* How often the file holds \begin{name} and \end{name}.
BeginCount(name) == Cardinality(Occurrences(TextBefore, Braced(TexBegin, name)))
EndCount(name) == Cardinality(Occurrences(TextBefore, Braced(TexEnd, name)))

\* How many of the issues reported say that the environment is unmatched.
UnmatchedIssues(name) ==
    Cardinality({i \in 1..Len(result.body.issues) :
                    /\ result.body.issues[i].head = IssueUnmatched
                    /\ result.body.issues[i].env = name})

\* C10: validate_latex reports exactly one "unmatched environment" issue
\* for each name that appears in a \begin or in an \end and has as many of
\* the one as of the other not, a name that appears only in \end included,
\* and none for a name with as many \begin as \end.
C10_OneIssuePerUnmatchedName ==
    Validated =>
        \A name \in EnvNames :
            UnmatchedIssues(name) = IF BeginCount(name) # EndCount(name) THEN 1 ELSE 0

\* An environment that is only ended, and no issue about it.
UnmatchedEndUnreported ==
    /\ Validated
    /\ BeginCount(<<"a">>) = 0
    /\ EndCount(<<"a">>) = 1
    /\ UnmatchedIssues(<<"a">>) = 0

\* An environment begun twice and ended once, and two issues about it.
UnmatchedBeginReportedTwice ==
    /\ Validated
    /\ BeginCount(<<"a">>) = 2
    /\ EndCount(<<"a">>) = 1
    /\ UnmatchedIssues(<<"a">>) = 2

(***************************************************************************)
(* SpecScan: validate_latex and get_latex_structure on a file made of      *)
(* commands                                                                *)
(***************************************************************************)

\* The names of the references and labels, and of the headings.
RefNames == {<<"x">>, <<"y">>}
HeadingNames == {<<"A">>, <<"B">>}

\* A \label whose brace is not closed.
OpenLabel == TexLabel \o <<"{">>

\* The pieces of a file to validate: the three markers of the basic
\* structure, single braces, references and labels, and an open \label.
ReportPieces ==
    {Braced(TexDocumentclass, NameArticle), TexBeginDocument, TexEndDocument,
     <<"{">>, <<"}">>, OpenLabel}
    \cup {Braced(TexRef, n) : n \in RefNames}
    \cup {Braced(TexLabel, n) : n \in RefNames}

\* The pieces of a file to outline: headings of four levels.
SectionPieces ==
    {Braced(TexSection, n) : n \in HeadingNames}
    \cup {Braced(TexChapter, n) : n \in HeadingNames}
    \cup {Braced(TexPart, <<"A">>), Braced(TexSubsection, <<"A">>)}

InitScan ==
    /\ base_path = BasePath
    /\ linesep = <<"\n">>
    /\ \E content \in Concatenations(ReportPieces, MaxPieces)
                        \cup Concatenations(SectionPieces, MaxPieces) :
          fs = MakeFs(EditTarget :> content)
    /\ before = fs
    /\ call = NoCall
    /\ result = NoResult
    /\ io = {}
    /\ tasks = <<>>
    /\ external = <<>>

StructureFile ==
    /\ Idle
    /\ \E p \in {Rel(<<"a.tex">>), Rel(<<"m.tex">>)} :
          CallTool("get_latex_structure", [file_path |-> p])

NextScan ==
    \/ ValidateFile
    \/ StructureFile
    \/ Respond

SpecScan == InitScan /\ [][NextScan]_vars

(***************************************************************************)
(* Properties of validate_latex's report (checked under SpecScan)          *)
(***************************************************************************)

\* The text m stands somewhere in the text t.
Occurs(t, m) == \E i \in 1..(Len(t) - Len(m) + 1) : SubSeq(t, i, i + Len(m) - 1) = m

\* The issues of the report, and how many of them have the head given.
Issues == result.body.issues

IssueCount(head) == Cardinality({i \in 1..Len(Issues) : Issues[i].head = head})

\* C11: every check of validate_latex runs whatever the earlier ones
\* found: each of the issues "Missing \documentclass declaration",
\* "Missing \begin{document}" and "Missing \end{document}" is in the report
\* (once) exactly when its marker is nowhere in the content, and a file
\* that holds only \begin{document}\end{document} gets the one issue
\* "Missing \documentclass declaration" and no other.
C11_EveryScaffoldCheckRuns ==
    Validated =>
        /\ IssueCount(IssueNoDocumentclass)
              = IF Occurs(TextBefore, TexDocumentclass) THEN 0 ELSE 1
        /\ IssueCount(IssueNoBegin) = IF Occurs(TextBefore, TexBeginDocument) THEN 0 ELSE 1
        /\ IssueCount(IssueNoEnd) = IF Occurs(TextBefore, TexEndDocument) THEN 0 ELSE 1
        /\ TextBefore = TexBeginDocument \o TexEndDocument
              => Issues = <<[head |-> IssueNoDocumentclass]>>

\* The file of the claim's example, validated.
C11_Witness ==
    /\ Validated
    /\ TextBefore = TexBeginDocument \o TexEndDocument
    /\ Issues = <<[head |-> IssueNoDocumentclass]>>

\* A file with none of the three markers: all three issues, and the issue
\* of a later check too.
C11_AllThreeReported ==
    /\ Validated
    /\ TextBefore = Braced(TexRef, <<"x">>)
    /\ IssueCount(IssueNoDocumentclass) = 1
    /\ IssueCount(IssueNoBegin) = 1
    /\ IssueCount(IssueNoEnd) = 1
    /\ IssueCount(IssueUndefined) = 1

\* The names the report calls undefined references.
UndefinedNames ==
    UNION {Issues[i].names : i \in {j \in 1..Len(Issues) : Issues[j].head = IssueUndefined}}

\* The text t with the text m put in after its first p characters.
InsertAt(t, p, m) == SubSeq(t, 1, p) \o m \o SubSeq(t, p + 1, Len(t))

\* The names validate_latex would call undefined in the text t.
UndefinedIn(t) ==
    LET Names(issues) == UNION {issues[i].names : i \in 1..Len(issues)}
    IN  Names(ReferenceIssues(t))

\* C12: validate_latex reports as undefined exactly the names with a
\* \ref{name} in the content and no \label{name} anywhere in it, all of
\* them in one issue; there is no such issue when every name referred to
\* has its label; and with \label{x} added at any position of the content,
\* x is not reported.
C12_UndefinedReferences ==
    Validated =>
        /\ UndefinedNames
              = {n \in RefNames : /\ Occurs(TextBefore, Braced(TexRef, n))
                                  /\ ~Occurs(TextBefore, Braced(TexLabel, n))}
        /\ IssueCount(IssueUndefined) = IF UndefinedNames = {} THEN 0 ELSE 1
        /\ \A x \in UndefinedNames : \A p \in 0..Len(TextBefore) :
              x \notin UndefinedIn(InsertAt(TextBefore, p, Braced(TexLabel, x)))

\* No \label{ of the text is open: each one is followed by a name and its
\* closing brace before the next command or brace.
LabelsClosed(t) ==
    \A i \in 1..Len(t) :
        MatchAt(t, OpenLabel, i)
            => \E n \in RefNames : MatchAt(t, Braced(TexLabel, n), i)

\* What does hold of the references: the same for a content none of whose
\* \label{ is open, with the label added where it leaves none open.
UndefinedReferencesWhenClosed ==
    (Validated /\ LabelsClosed(TextBefore)) =>
        /\ UndefinedNames
              = {n \in RefNames : /\ Occurs(TextBefore, Braced(TexRef, n))
                                  /\ ~Occurs(TextBefore, Braced(TexLabel, n))}
        /\ IssueCount(IssueUndefined) = IF UndefinedNames = {} THEN 0 ELSE 1
        /\ \A x \in UndefinedNames : \A p \in 0..Len(TextBefore) :
              LabelsClosed(InsertAt(TextBefore, p, Braced(TexLabel, x)))
                  => x \notin UndefinedIn(InsertAt(TextBefore, p, Braced(TexLabel, x)))

\* \ref{x}, an open \label{ and \label{x} after it: x has its label in the
\* content and is reported as undefined.
LabelAfterOpenLabelUnseen ==
    /\ Validated
    /\ TextBefore = Braced(TexRef, <<"x">>) \o OpenLabel \o Braced(TexLabel, <<"x">>)
    /\ Occurs(TextBefore, Braced(TexLabel, <<"x">>))
    /\ <<"x">> \in UndefinedNames

\* Two references without labels: both names in the one issue.
TwoUndefinedInOneIssue ==
    /\ Validated
    /\ LabelsClosed(TextBefore)
    /\ UndefinedNames = RefNames
    /\ IssueCount(IssueUndefined) = 1

\* How often the character c stands in the text t.
CharCount(t, c) == Cardinality({i \in 1..Len(t) : t[i] = c})

\* C13: validate_latex reports unbalanced braces (once, with the two
\* counts) exactly when the content holds another number of "{" than of
\* "}", wherever they stand: a content with as many of the one as of the
\* other, such as "}{", gets no such issue.
C13_BraceCountOnly ==
    Validated =>
        /\ IssueCount(IssueUnbalanced)
              = IF CharCount(TextBefore, "{") # CharCount(TextBefore, "}") THEN 1 ELSE 0
        /\ \A i \in 1..Len(Issues) :
              Issues[i].head = IssueUnbalanced
                  => /\ Issues[i].open = CharCount(TextBefore, "{")
                     /\ Issues[i].close = CharCount(TextBefore, "}")

\* The content "}{" validated: no issue about braces.
C13_Witness ==
    /\ Validated
    /\ TextBefore = <<"}", "{">>
    /\ IssueCount(IssueUnbalanced) = 0

\* The content "{{}" validated: the issue, with 2 and 1.
C13_UnbalancedReported ==
    /\ Validated
    /\ TextBefore = <<"{", "{", "}">>
    /\ IssueCount(IssueUnbalanced) = 1

(***************************************************************************)
(* Properties of get_latex_structure's outline (checked under SpecScan)    *)
(***************************************************************************)

Outlined ==
    /\ call.name = "get_latex_structure"
    /\ call.arguments.file_path = Rel(<<"a.tex">>)
    /\ result.outcome = "ok"

\* The outline of the result: its entries, each a level and a heading.
OutlineEntries == result.body.structure.outline

\* The levels from the highest to the lowest, each with its command.
LevelOrder ==
    <<"Part", "Chapter", "Section", "Subsection", "Subsubsection", "Paragraph",
      "Subparagraph">>

LevelRank(level) == CHOOSE k \in 1..Len(LevelOrder) : LevelOrder[k] = level

LevelCommand(level) ==
    CASE level = "Part" -> TexPart
      [] level = "Chapter" -> TexChapter
      [] level = "Section" -> TexSection
      [] level = "Subsection" -> TexSubsection
      [] level = "Subsubsection" -> TexSubsubsection
      [] level = "Paragraph" -> TexParagraph
      [] level = "Subparagraph" -> TexSubparagraph

\* The headings of one level as they stand in the text, first to last.
HeadingsInText(t, level) ==
    LET HeadingAt(p) ==
            {n \in HeadingNames : MatchAt(t, Braced(LevelCommand(level), n), p)}
        places == SelectSeq(Indices(1, Len(t)), LAMBDA p : HeadingAt(p) # {})
    IN  [i \in 1..Len(places) |-> CHOOSE n \in HeadingAt(places[i]) : TRUE]

\* The headings of the outline's entries of one level, in the outline's
\* order.
HeadingsInOutline(level) ==
    LET chosen == SelectSeq(OutlineEntries, LAMBDA e : e.level = level)
    IN  [i \in 1..Len(chosen) |-> chosen[i].heading]

\* C14: the outline get_latex_structure returns has its entries by level
\* (Part, Chapter, Section, Subsection, Subsubsection, Paragraph,
\* Subparagraph) wherever they stand in the text, and the entries of one
\* level are the headings of that level in the order of the text; the
\* text \section{A}\chapter{B} gives Chapter B before Section A.
C14_OutlineByLevelThenPosition ==
    Outlined =>
        /\ \A i \in 1..Len(OutlineEntries), j \in 1..Len(OutlineEntries) :
              i < j => LevelRank(OutlineEntries[i].level)
                          <= LevelRank(OutlineEntries[j].level)
        /\ \A k \in 1..Len(LevelOrder) :
              HeadingsInOutline(LevelOrder[k]) = HeadingsInText(TextBefore, LevelOrder[k])
        /\ TextBefore = Braced(TexSection, <<"A">>) \o Braced(TexChapter, <<"B">>)
              => OutlineEntries = << [level |-> "Chapter", heading |-> <<"B">>],
                                     [level |-> "Section", heading |-> <<"A">>] >>

\* The text of the claim's example, outlined.
C14_Witness ==
    /\ Outlined
    /\ TextBefore = Braced(TexSection, <<"A">>) \o Braced(TexChapter, <<"B">>)
    /\ OutlineEntries = << [level |-> "Chapter", heading |-> <<"B">>],
                           [level |-> "Section", heading |-> <<"A">>] >>

\* Two sections in the order B, A after a chapter that stands last in the
\* text: the chapter first, then B, then A.
C14_SameLevelInTextOrder ==
    /\ Outlined
    /\ TextBefore = Braced(TexSection, <<"B">>) \o Braced(TexSection, <<"A">>)
                        \o Braced(TexChapter, <<"A">>)
    /\ HeadingsInOutline("Section") = << <<"B">>, <<"A">> >>
    /\ OutlineEntries[1].level = "Chapter"

(***************************************************************************)
(* What the tools change and what listing returns (checked under Spec)     *)
(***************************************************************************)

\* The tools that only read.
ReadingTools ==
    {"read_latex_file", "list_latex_files", "validate_latex", "get_latex_structure"}

\* The operations of the last call that change the filesystem.
ChangingOps == {o \in io : o.op \in {"write", "mkdir"}}

\* C17: after any sequence of calls, a call of read_latex_file,
\* list_latex_files, validate_latex or get_latex_structure has changed
\* nothing on the filesystem and has neither written nor created anything;
\* the filesystem differs from the one before the call only after
\* create_latex_file or an edit_latex_file that succeeded; and the result
\* and the filesystem after the call are those the call gives from its
\* arguments and the filesystem before it alone, whatever calls came
\* before.
C17_ReadingToolsChangeNothing ==
    call # NoCall =>
        /\ call.name \in ReadingTools => (fs = before /\ ChangingOps = {})
        /\ fs # before =>
              \/ call.name = "create_latex_file"
              \/ call.name = "edit_latex_file" /\ result.outcome = "ok"
        /\ result = call_tool(before, base_path, linesep, call.name, call.arguments).result
        /\ fs = call_tool(before, base_path, linesep, call.name, call.arguments).fs

\* A read of a file an earlier call created and an edit changed: the
\* filesystem is as the edit left it, and no longer as it started.
C17_Witness ==
    /\ call.name = "read_latex_file"
    /\ "file_path" \in DOMAIN call.arguments
    /\ call.arguments.file_path = Rel(<<"a.tex">>)
    /\ result.outcome = "ok"
    /\ fs = before
    /\ fs[<<"home", "proj", "a.tex">>].data # <<"a">>
    /\ <<"home", "proj", "n.tex">> \in DOMAIN fs

\* A read of a file that is missing: nothing is created.
C17_MissingStaysMissing ==
    /\ call.name = "read_latex_file"
    /\ "file_path" \in DOMAIN call.arguments
    /\ call.arguments.file_path = Rel(<<"m.tex">>)
    /\ result.outcome = "not_found"
    /\ <<"home", "proj", "m.tex">> \notin DOMAIN fs

\* The directory a list_latex_files call names: the path check accepts it
\* and it is an existing directory.
ListsAcceptedDirectory ==
    /\ call.name = "list_latex_files"
    /\ HasPathArgument
    /\ ~Outside(PathArgument)
    /\ IsDir(before, Resolve(IF PathArgument.abs THEN PathArgument.parts
                             ELSE base_path \o PathArgument.parts))

\* C18: for every existing directory the path check accepts, a sibling of
\* the base directory included, list_latex_files returns the listing of
\* its .tex files or "No LaTeX files found", never an error.
C18_AcceptedDirectoryIsListed ==
    ListsAcceptedDirectory =>
        /\ result.outcome = "ok"
        /\ result.head \in {MsgFilesIn, MsgNoFiles}
        /\ ~StartsWith(result.head, ErrorPrefix)

\* The sibling of the base directory, named by its absolute path: it holds
\* a .tex file and the call returns the listing error.
SiblingListingFails ==
    /\ ListsAcceptedDirectory
    /\ PathArgument = Abs(<<"home", "sib">>)
    /\ IsFile(before, <<"home", "sib", "c.tex">>)
    /\ result.outcome = "exception"
    /\ result.head = MsgErrorListing

\* The same sibling named from the base directory: it is listed.
SiblingListedByRelativePath ==
    /\ ListsAcceptedDirectory
    /\ PathArgument = Rel(<<"..", "sib">>)
    /\ result.outcome = "ok"
    /\ result.head = MsgFilesIn

(***************************************************************************)
(* SpecRace: two edit_latex_file invocations in one event loop, and        *)
(* another process that writes the file                                    *)
(***************************************************************************)

\* The most writes the other process makes.
MaxExternal == 1

\* _edit_latex_file from its start to path.read_text: the result where it
\* returns before the read, the content read otherwise.
BeginEdit(f, base, arguments) ==
    LET Early(r) == [returned |-> TRUE, r |-> r, path |-> <<>>, content |-> <<>>]
        Checked(gp) ==
            IF ~gp.ok
            THEN Early(Return(f, "path_escape", MsgErrorEditing, [path |-> gp.path], {}))
            ELSE IF ~Exists(f, gp.path)
            THEN Early(Return(f, "not_found", MsgFileNotFound, [path |-> gp.path],
                              {Op("exists", gp.path)}))
            ELSE IF ReadFails(f, gp.path)
            THEN Early(Return(f, "io_error", MsgErrorEditing, [path |-> gp.path],
                              {Op("exists", gp.path), Op("read", gp.path)}))
            ELSE [returned |-> FALSE, r |-> Return(f, "none", <<>>, <<>>, {}),
                  path |-> gp.path, content |-> ReadFile(f, gp.path)]
    IN  Checked(get_file_path(base, arguments.file_path))

\* A handler that reads the file again before it changes the content.
FinishEditReadingAgain(f, sep, task) ==
    LET Written(e) ==
            IF ~e.ok
            THEN Return(f, e.outcome, e.head,
                        [path |-> task.path, operation |-> task.arguments.operation],
                        {Op("exists", task.path), Op("read", task.path)})
            ELSE Return(WriteFile(f, task.path, e.content, sep), "ok", MsgEdited,
                        [path |-> task.path, operation |-> task.arguments.operation],
                        {Op("exists", task.path), Op("read", task.path),
                         Op("write", task.path)})
    IN  Written(EditApply(ReadFile(f, task.path), task.arguments))

\* _edit_latex_file from the read to its return: the operation on the
\* content read earlier and, when it succeeds, path.write_text to the
\* filesystem as it is now.
FinishEdit(f, sep, task) ==
    LET Written(e) ==
            IF ~e.ok
            THEN Return(f, e.outcome, e.head,
                        [path |-> task.path, operation |-> task.arguments.operation],
                        {Op("exists", task.path), Op("read", task.path)})
            ELSE Return(WriteFile(f, task.path, e.content, sep), "ok", MsgEdited,
                        [path |-> task.path, operation |-> task.arguments.operation],
                        {Op("exists", task.path), Op("read", task.path),
                         Op("write", task.path)})
    IN  Written(EditApply(task.content, task.arguments))

\* The event loop with every request handled as soon as it arrives.
LoopAlwaysFree == TRUE

\* The event loop runs one handler at a time: call_tool and the handler
\* await nothing, so a handler that has started returns before the loop
\* starts another.
LoopFree == \A u \in DOMAIN tasks : tasks[u].pc # "read"

\* The invocations: edits of the file that succeed, one that fails after
\* the read and one of a file that is missing.
RaceCalls ==
    {EditArguments("append", <<"b">>), EditArguments("prepend", <<"c">>),
     EditArguments("replace", <<"d">>) @@ [search_text |-> <<"a">>],
     EditArguments("rename", <<"b">>),
     [file_path |-> Rel(<<"m.tex">>), operation |-> "append", new_text |-> <<"b">>]}

\* What the other process writes.
ExternalData == {<<"x">>}

Queued(arguments) ==
    [pc |-> "queued", arguments |-> arguments, path |-> <<>>, content |-> <<>>,
     result |-> NoResult]

\* Two requests have arrived; before is the filesystem they arrived at.
InitRace ==
    /\ base_path = BasePath
    /\ linesep \in {<<"\n">>, <<"\r", "\n">>}
    /\ \E data \in {<<"a">>, <<"a", "\n">>} : fs = MakeFs(EditTarget :> data)
    /\ before = fs
    /\ call = NoCall
    /\ result = NoResult
    /\ io = {}
    /\ \E first \in RaceCalls, second \in RaceCalls :
          tasks = <<Queued(first), Queued(second)>>
    /\ external = <<>>

\* The loop starts the handler of a request: the path check, the existence
\* test and the read.
HandlerStart(t) ==
    /\ tasks[t].pc = "queued"
    /\ LoopFree
    /\ \E b \in {BeginEdit(fs, base_path, tasks[t].arguments)} :
          IF b.returned
          THEN /\ tasks' = [tasks EXCEPT ![t].pc = "done", ![t].result = b.r.result]
               /\ call' = [name |-> "edit_latex_file", arguments |-> tasks[t].arguments]
               /\ result' = b.r.result
               /\ io' = b.r.io
          ELSE /\ tasks' = [tasks EXCEPT ![t].pc = "read", ![t].path = b.path,
                                         ![t].content = b.content]
               /\ UNCHANGED <<call, result, io>>
    /\ UNCHANGED <<base_path, linesep, fs, before, external>>

\* The handler goes on from the read to its return.
HandlerFinish(t) ==
    /\ tasks[t].pc = "read"
    /\ \E r \in {FinishEdit(fs, linesep, tasks[t])} :
          /\ fs' = r.fs
          /\ tasks' = [tasks EXCEPT ![t].pc = "done", ![t].result = r.result]
          /\ call' = [name |-> "edit_latex_file", arguments |-> tasks[t].arguments]
          /\ result' = r.result
          /\ io' = r.io
    /\ UNCHANGED <<base_path, linesep, before, external>>

\* Another process writes the file, at any time: also between the read
\* and the write of a handler.  The write is recorded with where each
\* handler stood.
ExternalWrite ==
    /\ Len(external) < MaxExternal
    /\ \E data \in ExternalData :
          /\ fs' = [fs EXCEPT ![EditTarget] = File(data)]
          /\ external' = Append(external,
                                [data |-> data,
                                 pcs |-> [t \in DOMAIN tasks |-> tasks[t].pc]])
    /\ UNCHANGED <<base_path, linesep, before, call, result, io, tasks>>

StartHandler == \E t \in DOMAIN tasks : HandlerStart(t)

FinishHandler == \E t \in DOMAIN tasks : HandlerFinish(t)

NextRace ==
    \/ StartHandler
    \/ FinishHandler
    \/ ExternalWrite

SpecRace == InitRace /\ [][NextRace]_vars

(***************************************************************************)
(* Properties of concurrent invocations (checked under SpecRace)           *)
(***************************************************************************)

\* The handlers that stand between their read and their write.
MidHandler == {t \in DOMAIN tasks : tasks[t].pc = "read"}

AllReturned == tasks # <<>> /\ \A t \in DOMAIN tasks : tasks[t].pc = "done"

\* The filesystem after two edit_latex_file calls, one after the other.
OneAfterTheOther(f, first, second) ==
    edit_latex_file(edit_latex_file(f, base_path, linesep, first).fs,
                    base_path, linesep, second).fs

\* C15: the invocations one server process handles never interleave inside
\* an operation: at most one handler stands between its read and its
\* write, and once two edit calls have returned (no other process having
\* written) the filesystem is the one that running the two calls one after
\* the other, in one of the two orders, gives: no update is lost.
C15_InvocationsDoNotInterleave ==
    /\ Cardinality(MidHandler) <= 1
    /\ (AllReturned /\ external = <<>>) =>
          fs \in {OneAfterTheOther(before, tasks[1].arguments, tasks[2].arguments),
                  OneAfterTheOther(before, tasks[2].arguments, tasks[1].arguments)}

\* An append of "b" and a replace of "a" by "d" of the file "a" have both
\* returned: the file holds both updates.
C15_Witness ==
    /\ AllReturned
    /\ external = <<>>
    /\ tasks[1].arguments.operation = "append"
    /\ tasks[2].arguments.operation = "replace"
    /\ tasks[1].result.outcome = "ok"
    /\ tasks[2].result.outcome = "ok"
    /\ before[EditTarget].data = <<"a">>
    /\ Decode(fs[EditTarget].data) = <<"d", "\n", "b">>

\* The edit of handler t is one that succeeds on a file that is there.
SucceedingEdit(t) ==
    /\ tasks[t].arguments.file_path = Rel(<<"a.tex">>)
    /\ tasks[t].arguments.operation \in {"replace", "append", "prepend"}

\* Handler t has returned, another process wrote the file between its read
\* and its write and not since, and no other handler has run.
Raced(t) ==
    /\ tasks[t].pc = "done"
    /\ \E i \in 1..Len(external) : external[i].pcs[t] = "read"
    /\ \A i \in 1..Len(external) : external[i].pcs[t] # "done"
    /\ \A u \in DOMAIN tasks \ {t} : tasks[u].pc = "queued"

\* The filesystem handler t read from: the one the requests arrived at,
\* with the last write another process made before the handler started.
ReadTimeFs(t) ==
    LET early == SelectSeq(external, LAMBDA e : e.pcs[t] = "queued")
    IN  IF early = <<>> THEN before
        ELSE [before EXCEPT ![EditTarget] = File(early[Len(early)].data)]

\* C16: a write another process makes to the file between an edit call's
\* read and its write is lost: the file ends as the edit alone would have
\* left it, computed from what it had read (the last write wins), and the
\* edit reports success as if nothing had happened.
C16_ExternalWriteIsLost ==
    \A t \in DOMAIN tasks :
        (Raced(t) /\ SucceedingEdit(t)) =>
            /\ tasks[t].result.outcome = "ok"
            /\ tasks[t].result.head = MsgEdited
            /\ fs[EditTarget]
                  = edit_latex_file(ReadTimeFs(t), base_path, linesep,
                                    tasks[t].arguments).fs[EditTarget]

\* An append of "b" to the file "a", with "x" written by another process
\* between its read and its write: the file holds "a", newline, "b" and
\* no "x".
C16_Witness ==
    /\ tasks # <<>>
    /\ Raced(1)
    /\ tasks[1].arguments = EditArguments("append", <<"b">>)
    /\ before[EditTarget].data = <<"a">>
    /\ external[1].data = <<"x">>
    /\ tasks[1].result.outcome = "ok"
    /\ Decode(fs[EditTarget].data) = <<"a", "\n", "b">>
=============================================================================
